---------------------------- MODULE Spec2Model ----------------------------
(***************************************************************************)
(* Model of the streaming scripts of amistreamraider.                      *)
(*                                                                         *)
(*   Spec        scripts/ts_joiner.py   the continuity splicer             *)
(*   SwitchSpec  scripts/fifo_switch.py the placeholder/live switch        *)
(*                                                                         *)
(* Representation of 33-bit timestamps.  TLC integers are 32 bits wide, so *)
(* a timestamp v (0 <= v < 2^33) is the pair <<hi, lo>> with               *)
(* v = hi * 2^15 + lo, hi < 2^18, lo < 2^15.  A shift "v >> k" of the      *)
(* source with k >= 15 is "hi >> (k-15)"; "& PTS_MASK" is the reduction of *)
(* hi modulo 2^18.  Python's None is the empty tuple.                      *)
(***************************************************************************)
EXTENDS Integers, Sequences, FiniteSets, TLC

TS_PACKET_SIZE == 188

LoMod == 2^15
HiMod == 2^18

None == << >>

Ts(hi, lo) == <<hi, lo>>

IsTs(v) == /\ Len(v) = 2
           /\ v[1] \in 0..(HiMod - 1)
           /\ v[2] \in 0..(LoMod - 1)

\* v < w on 33-bit values
TsLess(v, w) == \/ v[1] < w[1]
                \/ (v[1] = w[1] /\ v[2] < w[2])

TsLeq(v, w) == v = w \/ TsLess(v, w)

\* (a + b) & PTS_MASK
AddMask(a, b) ==
    LET lo == a[2] + b[2]
        hi == a[1] + b[1] + (lo \div LoMod)
    IN  Ts(hi % HiMod, lo % LoMod)

\* (a - b) & PTS_MASK: Python's & on a negative int is the two's complement
\* reduction, i.e. the non-negative residue modulo 2^33
SubMask(a, b) ==
    LET lo     == a[2] - b[2]
        borrow == IF lo < 0 THEN 1 ELSE 0
        hi     == a[1] - b[1] - borrow
    IN  Ts((hi + HiMod) % HiMod, (lo + LoMod) % LoMod)

(***************************************************************************)
(* decode_pts / encode_pts on a 5-byte field (a sequence of 5 bytes).      *)
(***************************************************************************)
decode_pts(data) ==
    Ts( ((data[1] \div 2) % 8) * 2^15 + data[2] * 2^7 + ((data[3] \div 2) % 128),
        data[4] * 2^7 + ((data[5] \div 2) % 128) )

encode_pts(pts) ==
    << ((2 * 16 + ((pts[1] \div 2^15) % 8)) * 2) + 1,
       (pts[1] \div 2^7) % 256,
       (((pts[1] % 128) * 2) + 1) % 256,
       (pts[2] \div 2^7) % 256,
       (((pts[2] % 128) * 2) + 1) % 256 >>

stream_is_media(stream_id) ==
    \/ (192 <= stream_id /\ stream_id <= 223)
    \/ (224 <= stream_id /\ stream_id <= 239)

(***************************************************************************)
(* Python indexing on a packet (0-based).  B is an index known to be in    *)
(* range; Idx is packet[i] in general, where an index past the end raises  *)
(* IndexError (the value Raise); Slice is packet[a:b], which never raises; *)
(* SetSlice is the slice assignment packet[pos:pos+5] = value.             *)
(***************************************************************************)
Raise == 0 - 1

Min(a, b) == IF a < b THEN a ELSE b

B(packet, i) == packet[i + 1]

Idx(packet, i) == IF i < Len(packet) THEN packet[i + 1] ELSE Raise

Slice(packet, a, b) == SubSeq(packet, a + 1, Min(b, Len(packet)))

\* fault: the field is written one byte late
SetSlice_shifted(packet, pos, value) ==
    SubSeq(packet, 1, pos + 1) \o value \o SubSeq(packet, pos + 7, Len(packet))

SetSlice(packet, pos, value) ==
    SubSeq(packet, 1, pos) \o value \o SubSeq(packet, pos + 6, Len(packet))

ParsedNone == [kind |-> "None"]

IndexError == [kind |-> "IndexError"]

Parsed(pts, pts_pos, dts, dts_pos) ==
    [kind |-> "parsed", pts |-> pts, pts_pos |-> pts_pos,
     dts |-> dts, dts_pos |-> dts_pos]

\* fault: the sync byte is not checked
BadFrame_lenOnly(packet) == Len(packet) # TS_PACKET_SIZE

\* len(packet) != TS_PACKET_SIZE or packet[0] != 0x47
BadFrame(packet) ==
    IF Len(packet) # TS_PACKET_SIZE THEN TRUE ELSE B(packet, 0) # 71

\* idx + 6 > len(packet) or packet[idx : idx + 3] != b"\x00\x00\x01"
NoPesStart(packet, idx) ==
    \/ idx + 6 > Len(packet)
    \/ Slice(packet, idx, idx + 3) # <<0, 0, 1>>

\* lines 66-81, entered with the stream id accepted
extract_pes(packet, idx) ==
    LET flags              == Idx(packet, idx + 7)
        header_data_length == Idx(packet, idx + 8)
        pts_pos            == idx + 9
        dts_pos            == pts_pos + 5
    IN  IF flags = Raise \/ header_data_length = Raise THEN IndexError
        ELSE IF (flags \div 128) % 2 = 0 THEN ParsedNone
        ELSE IF pts_pos + 5 > Len(packet) \/ header_data_length < 5
             THEN ParsedNone
        ELSE IF (flags \div 64) % 2 = 1
             THEN IF dts_pos + 5 > Len(packet) \/ header_data_length < 10
                  THEN ParsedNone
                  ELSE Parsed(decode_pts(Slice(packet, pts_pos, pts_pos + 5)),
                              pts_pos,
                              decode_pts(Slice(packet, dts_pos, dts_pos + 5)),
                              <<dts_pos>>)
        ELSE Parsed(decode_pts(Slice(packet, pts_pos, pts_pos + 5)),
                    pts_pos, None, None)

extract_pts(packet) ==
    IF BadFrame(packet) THEN ParsedNone
    ELSE
    LET payload_unit_start       == (B(packet, 1) \div 64) % 2 = 1
        adaptation_field_control == (B(packet, 3) \div 16) % 4
        idx == IF adaptation_field_control \in {2, 3}
               THEN 4 + 1 + B(packet, 4)
               ELSE 4
    IN  IF adaptation_field_control = 2 \/ idx >= Len(packet) THEN ParsedNone
        ELSE IF ~payload_unit_start THEN ParsedNone
        ELSE IF NoPesStart(packet, idx) THEN ParsedNone
        ELSE IF ~stream_is_media(Idx(packet, idx + 3)) THEN ParsedNone
        ELSE extract_pes(packet, idx)

(***************************************************************************)
(* Input packets.  A packet is a sequence of bytes; the inputs are built   *)
(* from a transport header, an optional adaptation field and a PES header, *)
(* padded with payload bytes to 188 bytes.                                 *)
(***************************************************************************)
MaxPackets == 4

TsZero == Ts(0, 0)
Ts9000 == Ts(0, 9000)
Ts90000 == Ts(2, 24464)
Ts99000 == Ts(3, 696)
TsMax == Ts(HiMod - 1, LoMod - 1)
\* 2^33 - 90000
TsNearWrap == Ts(HiMod - 3, 8304)

TsSet == {TsZero, Ts9000, Ts90000, TsNearWrap, TsMax}

\* a standard 5-byte timestamp field: 4-bit prefix, 3+15+15 value bits, and
\* a marker bit 1 closing bytes 0, 2 and 4
Field(prefix, ts) ==
    << prefix * 16 + ((ts[1] \div 2^15) % 8) * 2 + 1,
       (ts[1] \div 128) % 256,
       (ts[1] % 128) * 2 + 1,
       ts[2] \div 128,
       (ts[2] % 128) * 2 + 1 >>

ValidField(f) ==
    /\ Len(f) = 5
    /\ \A i \in 1..5 : f[i] \in 0..255
    /\ f[1] \div 16 \in {1, 2, 3}
    /\ f[1] % 2 = 1 /\ f[3] % 2 = 1 /\ f[5] % 2 = 1

Pad(s) == SubSeq(s \o [i \in 1..TS_PACKET_SIZE |-> 170], 1, TS_PACKET_SIZE)

Pes(start, stream_id, flags, hdl, fields) ==
    start \o <<stream_id, 0, 0, 128, flags, hdl>> \o fields

MkPacket(sync, pusi, afc, adap_len, pes) ==
    Pad(<<sync, IF pusi THEN 65 ELSE 1, 0, afc * 16>>
        \o (IF afc \in {2, 3}
            THEN <<adap_len>> \o [i \in 1..adap_len |-> 255]
            ELSE << >>)
        \o pes)

PesPts(stream_id, ts) == Pes(<<0, 0, 1>>, stream_id, 128, 5, Field(2, ts))

PesPtsDts(stream_id, pts, dts) ==
    Pes(<<0, 0, 1>>, stream_id, 192, 10, Field(3, pts) \o Field(1, dts))

PtsPackets == {MkPacket(71, TRUE, 1, 0, PesPts(224, ts)) : ts \in TsSet}

PtsDtsPackets ==
    { MkPacket(71, TRUE, 1, 0, PesPtsDts(224, Ts9000, TsZero)),
      MkPacket(71, TRUE, 3, 7, PesPtsDts(192, Ts90000, Ts9000)) }

BadSyncPacket == MkPacket(0, TRUE, 1, 0, PesPts(224, Ts9000))

TruncatedPacket ==
    SubSeq(MkPacket(71, TRUE, 1, 0, PesPts(224, Ts9000)), 1, TS_PACKET_SIZE - 1)

\* well-framed packets in which extract_pts finds no timestamp
PlainPackets ==
    { MkPacket(71, FALSE, 1, 0, PesPts(224, Ts9000)),
      MkPacket(71, TRUE, 2, 7, PesPts(224, Ts9000)),
      MkPacket(71, TRUE, 3, 183, << >>),
      MkPacket(71, TRUE, 3, 174, PesPts(224, Ts9000)),
      MkPacket(71, TRUE, 1, 0, Pes(<<0, 0, 0>>, 224, 128, 5, Field(2, Ts9000))),
      MkPacket(71, TRUE, 1, 0, PesPts(189, Ts9000)),
      MkPacket(71, TRUE, 1, 0, Pes(<<0, 0, 1>>, 224, 0, 0, << >>)),
      MkPacket(71, TRUE, 1, 0, Pes(<<0, 0, 1>>, 224, 128, 0, << >>)),
      MkPacket(71, TRUE, 1, 0, Pes(<<0, 0, 1>>, 224, 192, 5, Field(3, Ts9000))) }

\* a PES header that starts in the last 8 bytes of the packet
LatePesPackets ==
    { MkPacket(71, TRUE, 3, a, PesPts(224, Ts9000)) : a \in {175, 176, 177} }

PacketsIn ==
    PtsPackets \cup PtsDtsPackets \cup {BadSyncPacket, TruncatedPacket}
    \cup PlainPackets \cup LatePesPackets

(***************************************************************************)
(* The splicer's main loop (ts_joiner.py, main).                           *)
(*                                                                         *)
(* pc is the position in the loop: "select" (loop head), "read"            *)
(* (source.read), "handle" (the packet is in hand: parse, rewrite,         *)
(* out.write), "flush" (out.flush), "done" (break at live end-of-stream),  *)
(* "crashed" (an exception left main).                                     *)
(*                                                                         *)
(* History variables, not read by the program: n_reads, next_id, hand,     *)
(* read_log, outbuf, out_log, offset_sets, max_placeholder_out,            *)
(* max_live_out, live_in_last, live_in_monotone.  A packet's id is        *)
(* <<source, k>>: the k-th non-empty read from that source.                *)
(***************************************************************************)
VARIABLES pc, use_live, placeholder_closed,
          placeholder_last_pts, first_live_pts, pts_offset,
          packet, written,
          n_reads, hand, read_log, outbuf, out_log, offset_sets,
          max_placeholder_out, max_live_out, live_in_last, live_in_monotone

joinerVars == <<pc, use_live, placeholder_closed,
                placeholder_last_pts, first_live_pts, pts_offset,
                packet, written,
                n_reads, hand, read_log, outbuf, out_log, offset_sets,
                max_placeholder_out, max_live_out, live_in_last,
                live_in_monotone>>

VARIABLES sw_pc, live_started, live_nonblocking, live_chunk, sw_error,
          live_state, live_pipe, live_made,
          ph_state, ph_pipe, ph_made, ph_stdout_closed,
          sink, sink_open, fifo_closed, sw_exit,
          sw_signals

switchVars == <<sw_pc, live_started, live_nonblocking, live_chunk, sw_error,
                live_state, live_pipe, live_made,
                ph_state, ph_pipe, ph_made, ph_stdout_closed,
                sink, sink_open, fifo_closed, sw_exit,
                sw_signals>>

VARIABLES wait_for_client, stop_on_disconnect, clients, client_ready,
          shutdown_event, handler, link, writer_closed,
          st_pc, total_bytes, data, snapshot, todo, cur, dead,
          received,  served

tcpVars == <<wait_for_client, stop_on_disconnect, clients, client_ready,
             shutdown_event, handler, link, writer_closed,
             st_pc, total_bytes, data, snapshot, todo, cur, dead,
             received,  served>>

VARIABLES keep_segments, gap_timeout, hls_pc, manifest_in, n_src, pending,
          processed, sequence, recent_segments, last_output_path,
          manifest_out, output_dir, skipped, stable_seen,
          manifest_file, emitted

hlsVars == <<keep_segments, gap_timeout, hls_pc, manifest_in, n_src, pending,
             processed, sequence, recent_segments, last_output_path,
             manifest_out, output_dir, skipped, stable_seen,
             manifest_file, emitted>>

\* the state of the components other than the one that takes the step
VARIABLES pipelines, metrics, metric_tasks, tasks, next_task, returned,
          lifecycle, used,
          clock

mgrVars == <<pipelines, metrics, metric_tasks, tasks, next_task, returned,
             lifecycle, used, clock>>

(* The supervisor of one operation (spec, 4.1), see below.                 *)
VARIABLES sup_state, sup_restart_count, sup_last_error, sup_proc,
          sup_stop_requested, sup_monitor, sup_spawns, sup_exits, sup_cap

supVars == <<sup_state, sup_restart_count, sup_last_error, sup_proc,
             sup_stop_requested, sup_monitor, sup_spawns, sup_exits, sup_cap>>

(* The TCP wrapper (tcp_wrapper.py), see below.                            *)
VARIABLES w_pc, CURRENT_PIPELINE, w_groups, w_conn, w_accepted, w_pipe,
          w_sent

wrapperVars == <<w_pc, CURRENT_PIPELINE, w_groups, w_conn, w_accepted,
                 w_pipe, w_sent>>

otherThanJoiner == <<switchVars, tcpVars, hlsVars, mgrVars, supVars,
                    wrapperVars>>

otherThanSwitch == <<joinerVars, tcpVars, hlsVars, mgrVars, supVars,
                    wrapperVars>>

otherThanTcp == <<joinerVars, switchVars, hlsVars, mgrVars, supVars,
                    wrapperVars>>

otherThanHls == <<joinerVars, switchVars, tcpVars, mgrVars, supVars,
                    wrapperVars>>

otherThanMgr == <<joinerVars, switchVars, tcpVars, hlsVars, supVars,
                    wrapperVars>>

otherThanSup == <<joinerVars, switchVars, tcpVars, hlsVars, mgrVars,
                 wrapperVars>>

otherThanWrapper == <<joinerVars, switchVars, tcpVars, hlsVars, mgrVars,
                     supVars>>

joinerHistory == <<n_reads, hand, read_log, outbuf, out_log, offset_sets,
                   max_placeholder_out, max_live_out, live_in_last,
                   live_in_monotone>>

JoinerInit ==
    /\ pc = "select"
    /\ use_live = FALSE
    /\ placeholder_closed = FALSE
    /\ placeholder_last_pts = None
    /\ first_live_pts = None
    /\ pts_offset = None
    /\ packet = << >>
    /\ written = << >>
    /\ n_reads = 0
    /\ hand = << >>
    /\ read_log = << >>
    /\ outbuf = << >>
    /\ out_log = << >>
    /\ offset_sets = 0
    /\ max_placeholder_out = None
    /\ max_live_out = None
    /\ live_in_last = None
    /\ live_in_monotone = TRUE

\* source = live_fd if use_live else placeholder
Source == IF use_live THEN "live" ELSE "placeholder"

\* lines 99-107: poll the live descriptor; on readiness switch for good
Select ==
    /\ pc = "select"
    /\ pc' = "read"
    /\ IF use_live
       THEN UNCHANGED <<use_live, placeholder_closed>>
       ELSE \E events \in BOOLEAN :
               IF events
               THEN use_live' = TRUE /\ placeholder_closed' = TRUE
               ELSE UNCHANGED <<use_live, placeholder_closed>>
    /\ UNCHANGED <<placeholder_last_pts, first_live_pts, pts_offset,
                   packet, written, joinerHistory>>
    /\ UNCHANGED otherThanJoiner

\* lines 108-113 with an empty read: placeholder retries, live ends the loop
ReadEmpty ==
    /\ pc = "read"
    /\ pc' = IF use_live THEN "done" ELSE "select"
    /\ UNCHANGED <<use_live, placeholder_closed, placeholder_last_pts,
                   first_live_pts, pts_offset, packet, written,
                   joinerHistory>>
    /\ UNCHANGED otherThanJoiner

\* lines 108-109 with a non-empty read (a whole or a short packet)
ReadPacket ==
    /\ pc = "read"
    /\ n_reads < MaxPackets
    /\ \E p \in PacketsIn :
          /\ packet' = p
          /\ written' = << >>
    /\ LET id == <<Source,
                   1 + Cardinality({i \in 1..Len(read_log) :
                                       read_log[i][1] = Source})>>
       IN  /\ hand' = id
           /\ read_log' = Append(read_log, id)
    /\ n_reads' = n_reads + 1
    /\ pc' = "handle"
    /\ UNCHANGED <<use_live, placeholder_closed, placeholder_last_pts,
                   first_live_pts, pts_offset, outbuf, out_log, offset_sets,
                   max_placeholder_out, max_live_out, live_in_last,
                   live_in_monotone>>
    /\ UNCHANGED otherThanJoiner

\* fault: the offset is recomputed on every live timestamp
FirstLive_always(first) == TRUE

\* line 120: the offset is computed on this packet
FirstLive(first) == first = None

\* fault: a splice without a placeholder timestamp starts from zero
LivePlaceholderLast_zero(pl, first, pts) ==
    IF FirstLive(first) /\ pl = None THEN TsZero ELSE pl

\* lines 120-123
LivePlaceholderLast(pl, first, pts) ==
    IF FirstLive(first) /\ pl = None THEN pts ELSE pl

\* lines 120-121
LiveFirstPts(first, pts) == IF FirstLive(first) THEN pts ELSE first

\* fault: the operands of the subtraction exchanged
ComputeOffset_swapped(pl, first) == SubMask(first, pl)

\* line 124
ComputeOffset(pl, first) == SubMask(pl, first)

\* lines 120-124
LiveOffset(off, pl, first, pts) ==
    IF FirstLive(first)
    THEN ComputeOffset(LivePlaceholderLast(pl, first, pts), pts)
    ELSE off

\* lines 126-127
RewritePts(pkt, parsed, off) ==
    SetSlice(pkt, parsed.pts_pos, encode_pts(AddMask(parsed.pts, off)))

\* fault: the decode timestamp is left as it was
RewriteDts_skip(pkt, parsed, off) == pkt

\* lines 128-130
RewriteDts(pkt, parsed, off) ==
    IF parsed.dts # None /\ parsed.dts_pos # None
    THEN SetSlice(pkt, parsed.dts_pos[1], encode_pts(AddMask(parsed.dts, off)))
    ELSE pkt

\* lines 125-130
Rewrite(pkt, parsed, off) ==
    IF off # None
    THEN RewriteDts(RewritePts(pkt, parsed, off), parsed, off)
    ELSE pkt

\* fault: the latest placeholder timestamp is kept, not the maximum
PlaceholderLast_latest(pl, pts) == pts

\* lines 137-138
PlaceholderLast(pl, pts) ==
    IF pl = None THEN pts
    ELSE IF TsLess(pl, pts) THEN pts ELSE pl

\* out.write(...) of lines 131 and 139: the bytes go to the output buffer
Write(bytes) ==
    /\ written' = bytes
    /\ outbuf' = Append(outbuf, hand)
    /\ hand' = << >>

\* lines 116-131: a live packet
HandleLive ==
    /\ pc = "handle"
    /\ use_live
    /\ LET parsed == extract_pts(packet)
       IN  IF parsed.kind = "IndexError"
           THEN /\ pc' = "crashed"
                /\ UNCHANGED <<placeholder_last_pts, first_live_pts,
                               pts_offset, written, hand, outbuf,
                               offset_sets, live_in_last, live_in_monotone>>
           ELSE IF parsed.kind = "parsed"
           THEN LET off == LiveOffset(pts_offset, placeholder_last_pts,
                                      first_live_pts, parsed.pts)
                IN  /\ pc' = "flush"
                    /\ placeholder_last_pts' =
                          LivePlaceholderLast(placeholder_last_pts,
                                              first_live_pts, parsed.pts)
                    /\ first_live_pts' = LiveFirstPts(first_live_pts, parsed.pts)
                    /\ pts_offset' = off
                    /\ offset_sets' = IF FirstLive(first_live_pts)
                                      THEN offset_sets + 1
                                      ELSE offset_sets
                    /\ Write(Rewrite(packet, parsed, off))
                    /\ live_in_last' = parsed.pts
                    /\ live_in_monotone' =
                          (/\ live_in_monotone
                           /\ (live_in_last = None
                               \/ TsLeq(live_in_last, parsed.pts)))
           ELSE /\ pc' = "flush"
                /\ Write(packet)
                /\ UNCHANGED <<placeholder_last_pts, first_live_pts,
                               pts_offset, offset_sets, live_in_last,
                               live_in_monotone>>
    /\ UNCHANGED <<use_live, placeholder_closed, packet, n_reads, read_log,
                   out_log, max_placeholder_out, max_live_out>>
    /\ UNCHANGED otherThanJoiner

\* lines 133-139: a placeholder packet
HandlePlaceholder ==
    /\ pc = "handle"
    /\ ~use_live
    /\ LET parsed == extract_pts(packet)
       IN  IF parsed.kind = "IndexError"
           THEN /\ pc' = "crashed"
                /\ UNCHANGED <<placeholder_last_pts, written, hand, outbuf>>
           ELSE /\ pc' = "flush"
                /\ placeholder_last_pts' =
                      IF parsed.kind = "parsed"
                      THEN PlaceholderLast(placeholder_last_pts, parsed.pts)
                      ELSE placeholder_last_pts
                /\ Write(packet)
    /\ UNCHANGED <<use_live, placeholder_closed, first_live_pts, pts_offset,
                   packet, n_reads, read_log, out_log, offset_sets,
                   max_placeholder_out, max_live_out, live_in_last,
                   live_in_monotone>>
    /\ UNCHANGED otherThanJoiner

\* the presentation timestamp the bytes just written carry, if the packet
\* read had one
WrittenPts ==
    LET parsed == extract_pts(packet)
    IN  IF parsed.kind = "parsed"
        THEN decode_pts(Slice(written, parsed.pts_pos, parsed.pts_pos + 5))
        ELSE None

\* fault: the loop goes on without flushing
Flush_skip ==
    /\ pc = "flush"
    /\ pc' = "select"
    /\ UNCHANGED <<use_live, placeholder_closed, placeholder_last_pts,
                   first_live_pts, pts_offset, packet, written,
                   joinerHistory>>
    /\ UNCHANGED otherThanJoiner

\* line 140: the buffered bytes reach the output
Flush ==
    /\ pc = "flush"
    /\ pc' = "select"
    /\ out_log' = out_log \o outbuf
    /\ outbuf' = << >>
    /\ IF WrittenPts = None
       THEN UNCHANGED <<max_placeholder_out, max_live_out>>
       ELSE IF use_live
       THEN /\ max_live_out' =
                  IF max_live_out = None THEN WrittenPts
                  ELSE IF TsLess(max_live_out, WrittenPts)
                       THEN WrittenPts ELSE max_live_out
            /\ UNCHANGED max_placeholder_out
       ELSE /\ max_placeholder_out' =
                  IF max_placeholder_out = None THEN WrittenPts
                  ELSE IF TsLess(max_placeholder_out, WrittenPts)
                       THEN WrittenPts ELSE max_placeholder_out
            /\ UNCHANGED max_live_out
    /\ UNCHANGED <<use_live, placeholder_closed, placeholder_last_pts,
                   first_live_pts, pts_offset, packet, written, n_reads,
                   hand, read_log, offset_sets, live_in_last,
                   live_in_monotone>>
    /\ UNCHANGED otherThanJoiner

JoinerNext ==
    \/ Select
    \/ ReadEmpty
    \/ ReadPacket
    \/ HandleLive
    \/ HandlePlaceholder
    \/ Flush

(***************************************************************************)
(* The placeholder/live switch (fifo_switch.py, main), from the state      *)
(* after line 78: both chains launched, the sink opened.                   *)
(*                                                                         *)
(* sw_pc is the position in main: "loop" (line 80), "read_live" (83),      *)
(* "handover" (88), "read_placeholder" (97), "relay" (108), "finally"      *)
(* (118), "exit".  A child is "running", "closed" (alive, its output       *)
(* closed) or "exited"; its pipe holds the chunks written and not yet      *)
(* read, which stay readable after it exits.  A chunk is <<chain, k>>.     *)
(* sw_error is the exception in flight or caught: "none", "RuntimeError"   *)
(* (propagates out of main) or "BrokenPipeError" (caught at line 116).     *)
(* sw_exit is how main ended: "running", "ok" (returned) or "failed" (an   *)
(* exception left main).  sw_signals holds, for each child, the signals    *)
(* _terminate has sent to its process group.  A child stands for its       *)
(* process group: the group is gone when its leader has exited.            *)
(***************************************************************************)
MaxLiveChunks == 2

MaxPlaceholderChunks == 2

\* fault: the live descriptor is left in blocking mode
SetNonBlocking_omitted == FALSE

\* lines 71-72: O_NONBLOCK is set on the live descriptor before the loop
SetNonBlocking == TRUE

SwitchInit ==
    /\ sw_pc = "loop"
    /\ live_started = FALSE
    /\ live_nonblocking = SetNonBlocking
    /\ live_chunk = None
    /\ sw_error = "none"
    /\ live_state = "running"
    /\ live_pipe = << >>
    /\ live_made = 0
    /\ ph_state = "running"
    /\ ph_pipe = << >>
    /\ ph_made = 0
    /\ ph_stdout_closed = FALSE
    /\ sink = << >>
    /\ sink_open = TRUE
    /\ fifo_closed = FALSE
    /\ sw_exit = "running"
    /\ sw_signals = [placeholder |-> << >>, live |-> << >>]

\* lines 40-51: the signals _terminate sends to the group of a child in
\* this state; obeys tells whether the child exits within the 2 seconds
\* that follow SIGTERM
Signals(state, obeys) ==
    IF state = "exited" THEN << >>
    ELSE IF obeys THEN <<"SIGTERM">>
    ELSE <<"SIGTERM", "SIGKILL">>

\* fault: no SIGKILL after the wait has timed out
Terminated_noKill(state, obeys) ==
    IF state = "exited" \/ obeys THEN "exited" ELSE state

\* lines 37-51: the child after _terminate: it had exited, or it exits on
\* SIGTERM, or it is killed
Terminated(state, obeys) == "exited"

\* a read(CHUNK_SIZE) on the pipe returns at once: data, or end of file
Readable(state, pipe) == pipe # << >> \/ state # "running"

\* fault: the exit of the live process is not looked at
LoopHead_noPoll ==
    /\ sw_pc = "loop"
    /\ sw_pc' = "read_live"
    /\ UNCHANGED <<live_started, live_nonblocking, live_chunk, sw_error,
                   live_state, live_pipe, live_made,
                   ph_state, ph_pipe, ph_made, ph_stdout_closed,
                   sink, sink_open, fifo_closed, sw_exit,
                   sw_signals>>
    /\ UNCHANGED otherThanSwitch

\* lines 80-82
LoopHead ==
    /\ sw_pc = "loop"
    /\ IF live_state = "exited"
       THEN sw_error' = "RuntimeError" /\ sw_pc' = "finally"
       ELSE sw_error' = sw_error /\ sw_pc' = "read_live"
    /\ UNCHANGED <<live_started, live_nonblocking, live_chunk,
                   live_state, live_pipe, live_made,
                   ph_state, ph_pipe, ph_made, ph_stdout_closed,
                   sink, sink_open, fifo_closed, sw_exit,
                   sw_signals>>
    /\ UNCHANGED otherThanSwitch

\* lines 83-87: the poll of the live pipe; a read in blocking mode returns
\* only once the pipe is readable
ReadLive ==
    /\ sw_pc = "read_live"
    /\ live_nonblocking \/ Readable(live_state, live_pipe)
    /\ IF live_pipe # << >>
       THEN /\ live_chunk' = Head(live_pipe)
            /\ live_pipe' = Tail(live_pipe)
            /\ sw_pc' = "handover"
       ELSE /\ live_chunk' = None
            /\ live_pipe' = live_pipe
            /\ sw_pc' = "read_placeholder"
    /\ UNCHANGED <<live_started, live_nonblocking, sw_error,
                   live_state, live_made,
                   ph_state, ph_pipe, ph_made, ph_stdout_closed,
                   sink, sink_open, fifo_closed, sw_exit,
                   sw_signals>>
    /\ UNCHANGED otherThanSwitch

\* os.write(fifo_fd, chunk): the chunk reaches the sink, or the reader is
\* gone and BrokenPipeError is raised
WriteSink(chunk, next_pc) ==
    IF sink_open
    THEN sink' = Append(sink, chunk) /\ sw_pc' = next_pc /\ sw_error' = sw_error
    ELSE sink' = sink /\ sw_pc' = "finally" /\ sw_error' = "BrokenPipeError"

\* fault: the chunk read by the poll is not written
Handover_noWrite ==
    /\ sw_pc = "handover"
    /\ live_started' = TRUE
    /\ live_nonblocking' = FALSE
    /\ ph_state' = "exited"
    /\ ph_stdout_closed' = TRUE
    /\ sw_pc' = "relay"
    /\ UNCHANGED <<live_chunk, live_state, live_pipe, live_made, sw_error,
                   ph_pipe, ph_made, sink, sink_open, fifo_closed, sw_exit,
                   sw_signals>>
    /\ UNCHANGED otherThanSwitch

\* lines 88-96
Handover ==
    /\ sw_pc = "handover"
    /\ live_started' = TRUE
    /\ live_nonblocking' = FALSE
    /\ \E obeys \in BOOLEAN :
          /\ ph_state' = Terminated(ph_state, obeys)
          /\ sw_signals' = [sw_signals EXCEPT !.placeholder =
                                @ \o Signals(ph_state, obeys)]
    /\ ph_stdout_closed' = TRUE
    /\ WriteSink(live_chunk, "relay")
    /\ UNCHANGED <<live_chunk, live_state, live_pipe, live_made,
                   ph_pipe, ph_made, sink_open, fifo_closed, sw_exit>>
    /\ UNCHANGED otherThanSwitch

\* lines 97-106: a blocking read of the placeholder pipe
ReadPlaceholder ==
    /\ sw_pc = "read_placeholder"
    /\ Readable(ph_state, ph_pipe)
    /\ IF ph_pipe # << >>
       THEN /\ ph_pipe' = Tail(ph_pipe)
            /\ WriteSink(Head(ph_pipe), "loop")
       ELSE /\ ph_pipe' = ph_pipe
            /\ sink' = sink
            /\ IF ph_state = "exited"
               THEN sw_error' = "RuntimeError" /\ sw_pc' = "finally"
               ELSE sw_error' = sw_error /\ sw_pc' = "loop"
    /\ UNCHANGED <<live_started, live_nonblocking, live_chunk,
                   live_state, live_pipe, live_made,
                   ph_state, ph_made, ph_stdout_closed,
                   sink_open, fifo_closed, sw_exit,
                   sw_signals>>
    /\ UNCHANGED otherThanSwitch

\* fault: the relay loop without the break of lines 113-114
Relay_noBreak ==
    /\ sw_pc = "relay"
    /\ live_nonblocking \/ Readable(live_state, live_pipe)
    /\ IF live_pipe # << >>
       THEN /\ live_pipe' = Tail(live_pipe)
            /\ WriteSink(Head(live_pipe), "relay")
       ELSE /\ live_pipe' = live_pipe
            /\ sink' = sink
            /\ sw_error' = sw_error
            /\ sw_pc' = "relay"
    /\ UNCHANGED <<live_started, live_nonblocking, live_chunk,
                   live_state, live_made,
                   ph_state, ph_pipe, ph_made, ph_stdout_closed,
                   sink_open, fifo_closed, sw_exit,
                   sw_signals>>
    /\ UNCHANGED otherThanSwitch

\* lines 108-114: the relay loop after the handover
Relay ==
    /\ sw_pc = "relay"
    /\ live_nonblocking \/ Readable(live_state, live_pipe)
    /\ IF live_pipe # << >>
       THEN /\ live_pipe' = Tail(live_pipe)
            /\ WriteSink(Head(live_pipe), "relay")
       ELSE /\ live_pipe' = live_pipe
            /\ sink' = sink
            /\ sw_error' = sw_error
            /\ sw_pc' = IF live_state = "exited" THEN "finally" ELSE "relay"
    /\ UNCHANGED <<live_started, live_nonblocking, live_chunk,
                   live_state, live_made,
                   ph_state, ph_pipe, ph_made, ph_stdout_closed,
                   sink_open, fifo_closed, sw_exit,
                   sw_signals>>
    /\ UNCHANGED otherThanSwitch

\* fault: no except clause for the broken pipe
Caught_nothing(err) == FALSE

\* line 116: except BrokenPipeError
Caught(err) == err = "BrokenPipeError"

\* lines 116-122: both children are terminated, the sink is closed; an
\* exception that was not caught leaves main
Finally ==
    /\ sw_pc = "finally"
    /\ sw_pc' = "exit"
    /\ \E ph_obeys \in BOOLEAN, live_obeys \in BOOLEAN :
          /\ ph_state' = Terminated(ph_state, ph_obeys)
          /\ live_state' = Terminated(live_state, live_obeys)
          /\ sw_signals' = [sw_signals EXCEPT
                  !.placeholder = @ \o Signals(ph_state, ph_obeys),
                  !.live = @ \o Signals(live_state, live_obeys)]
    /\ fifo_closed' = TRUE
    /\ sw_exit' = IF sw_error = "none" \/ Caught(sw_error) THEN "ok" ELSE "failed"
    /\ UNCHANGED <<live_started, live_nonblocking, live_chunk, sw_error,
                   live_pipe, live_made, ph_pipe, ph_made, ph_stdout_closed,
                   sink, sink_open>>
    /\ UNCHANGED otherThanSwitch

(* The children and the reader of the sink. *)
LiveProduce ==
    /\ sw_pc # "exit"
    /\ live_state = "running"
    /\ live_made < MaxLiveChunks
    /\ live_made' = live_made + 1
    /\ live_pipe' = Append(live_pipe, <<"live", live_made + 1>>)
    /\ UNCHANGED <<sw_pc, live_started, live_nonblocking, live_chunk,
                   sw_error, live_state,
                   ph_state, ph_pipe, ph_made, ph_stdout_closed,
                   sink, sink_open, fifo_closed, sw_exit,
                   sw_signals>>
    /\ UNCHANGED otherThanSwitch

LiveStop ==
    /\ sw_pc # "exit"
    /\ \/ live_state = "running" /\ live_state' \in {"closed", "exited"}
       \/ live_state = "closed" /\ live_state' = "exited"
    /\ UNCHANGED <<sw_pc, live_started, live_nonblocking, live_chunk,
                   sw_error, live_pipe, live_made,
                   ph_state, ph_pipe, ph_made, ph_stdout_closed,
                   sink, sink_open, fifo_closed, sw_exit,
                   sw_signals>>
    /\ UNCHANGED otherThanSwitch

PlaceholderProduce ==
    /\ sw_pc # "exit"
    /\ ph_state = "running"
    /\ ph_made < MaxPlaceholderChunks
    /\ ph_made' = ph_made + 1
    /\ ph_pipe' = Append(ph_pipe, <<"placeholder", ph_made + 1>>)
    /\ UNCHANGED <<sw_pc, live_started, live_nonblocking, live_chunk,
                   sw_error, live_state, live_pipe, live_made,
                   ph_state, ph_stdout_closed,
                   sink, sink_open, fifo_closed, sw_exit,
                   sw_signals>>
    /\ UNCHANGED otherThanSwitch

PlaceholderStop ==
    /\ sw_pc # "exit"
    /\ \/ ph_state = "running" /\ ph_state' \in {"closed", "exited"}
       \/ ph_state = "closed" /\ ph_state' = "exited"
    /\ UNCHANGED <<sw_pc, live_started, live_nonblocking, live_chunk,
                   sw_error, live_state, live_pipe, live_made,
                   ph_pipe, ph_made, ph_stdout_closed,
                   sink, sink_open, fifo_closed, sw_exit,
                   sw_signals>>
    /\ UNCHANGED otherThanSwitch

SinkReaderCloses ==
    /\ sw_pc # "exit"
    /\ sink_open
    /\ sink_open' = FALSE
    /\ UNCHANGED <<sw_pc, live_started, live_nonblocking, live_chunk,
                   sw_error, live_state, live_pipe, live_made,
                   ph_state, ph_pipe, ph_made, ph_stdout_closed,
                   sink, fifo_closed, sw_exit,
                   sw_signals>>
    /\ UNCHANGED otherThanSwitch

SwitchNext ==
    \/ LoopHead
    \/ ReadLive
    \/ Handover
    \/ ReadPlaceholder
    \/ Relay
    \/ Finally
    \/ LiveProduce
    \/ LiveStop
    \/ PlaceholderProduce
    \/ PlaceholderStop
    \/ SinkReaderCloses

(***************************************************************************)
(* The TCP sink (tcp_sink.py): serve_stream.  One consumer task reads the  *)
(* input chunk by chunk and broadcasts each chunk to the clients; one      *)
(* handler task per client waits for the client to go away.  The tasks of  *)
(* an event loop interleave at their awaits only, so st_pc names the await *)
(* the consumer is suspended on:                                           *)
(*   "wait_client"  line 86, client_ready.wait()                           *)
(*   "read"         line 89, stdin_reader.read(CHUNK_SIZE)                 *)
(*   "drain"        line 78, writer.drain() of the writer cur              *)
(*   "wait_closed"  line 82, close_client of a dead writer                 *)
(*   "done" (returned) and "cancelled" (stdin_task.cancel(), line 69).     *)
(* handler[c] is "absent" (never connected), "reading" (line 62),          *)
(* "closing" (line 64, inside close_client) or "finished".  link[c] is the *)
(* connection of client c: "ok", "stalled" (the client does not read and   *)
(* the transport is paused above its high-water mark) or "lost".  Chunks   *)
(* are the numbers 1, 2, ... in input order and every chunk is one unit    *)
(* long.  Two variables only observe: received[c] is what was written to  *)
(* the writer of c, kept while the connection of c is up, and snapshot is  *)
(* the list(clients) of the broadcast that is under way.                   *)
(***************************************************************************)
MaxClients == 2

MaxChunks == 2

Clients == 1..MaxClients

\* fault: the consumer does not wait for a client
StartPc_noWait(wfc) == "read"

\* lines 85-86
StartPc(wfc) == IF wfc THEN "wait_client" ELSE "read"

TcpInit(wfc, sod) ==
    /\ wait_for_client = wfc
    /\ stop_on_disconnect = sod
    /\ clients = {}
    /\ client_ready = FALSE
    /\ shutdown_event = FALSE
    /\ handler = [c \in Clients |-> "absent"]
    /\ link = [c \in Clients |-> "ok"]
    /\ writer_closed = [c \in Clients |-> FALSE]
    /\ st_pc = StartPc(wfc)
    /\ total_bytes = 0
    /\ data = 0
    /\ snapshot = {}
    /\ todo = {}
    /\ cur = 0
    /\ dead = {}
    /\ received = [c \in Clients |-> << >>]
    /\ served = "serving"

\* lines 57-62: a client connects and its handler starts; the clients are
\* numbered in the order in which they connect
Connect(c) ==
    /\ served = "serving"
    /\ handler[c] = "absent"
    /\ \A b \in 1..(c - 1) : handler[b] # "absent"
    /\ clients' = clients \cup {c}
    /\ client_ready' = TRUE
    /\ handler' = [handler EXCEPT ![c] = "reading"]
    /\ UNCHANGED <<wait_for_client, stop_on_disconnect, shutdown_event, link,
                   writer_closed, st_pc, total_bytes, data, snapshot, todo,
                   cur, dead, received, served>>
    /\ UNCHANGED otherThanTcp

\* the client stops reading and the send buffers fill
ClientStalls(c) ==
    /\ served = "serving"
    /\ handler[c] # "absent"
    /\ link[c] = "ok"
    /\ link' = [link EXCEPT ![c] = "stalled"]
    /\ UNCHANGED <<wait_for_client, stop_on_disconnect, clients, client_ready,
                   shutdown_event, handler, writer_closed, st_pc, total_bytes,
                   data, snapshot, todo, cur, dead, received,
                   served>>
    /\ UNCHANGED otherThanTcp

\* the client reads again
ClientResumes(c) ==
    /\ served = "serving"
    /\ link[c] = "stalled"
    /\ link' = [link EXCEPT ![c] = "ok"]
    /\ UNCHANGED <<wait_for_client, stop_on_disconnect, clients, client_ready,
                   shutdown_event, handler, writer_closed, st_pc, total_bytes,
                   data, snapshot, todo, cur, dead, received,
                   served>>
    /\ UNCHANGED otherThanTcp

\* the client disconnects or the connection is reset
ConnectionLost(c) ==
    /\ served = "serving"
    /\ handler[c] # "absent"
    /\ link[c] # "lost"
    /\ link' = [link EXCEPT ![c] = "lost"]
    /\ received' = [received EXCEPT ![c] = << >>]
    /\ UNCHANGED <<wait_for_client, stop_on_disconnect, clients, client_ready,
                   shutdown_event, handler, writer_closed, st_pc, total_bytes,
                   data, snapshot, todo, cur, dead, served>>
    /\ UNCHANGED otherThanTcp

\* lines 62-64 and 47-50: reader.read() ends, close_client up to its await
HandlerClose(c) ==
    /\ served = "serving"
    /\ handler[c] = "reading"
    /\ link[c] = "lost"
    /\ clients' = clients \ {c}
    /\ writer_closed' = [writer_closed EXCEPT ![c] = TRUE]
    /\ handler' = [handler EXCEPT ![c] = "closing"]
    /\ UNCHANGED <<wait_for_client, stop_on_disconnect, client_ready,
                   shutdown_event, link, st_pc, total_bytes, data, snapshot,
                   todo, cur, dead, received,  served>>
    /\ UNCHANGED otherThanTcp

\* fault: the policy is not looked at
ShouldStop_never(sod, cl) == FALSE

\* line 66
ShouldStop(sod, cl) == sod /\ cl = {}

\* lines 66-69: after close_client, the handler stops the sink when the
\* policy asks for it and no client is left
HandlerFinish(c) ==
    /\ served = "serving"
    /\ handler[c] = "closing"
    /\ handler' = [handler EXCEPT ![c] = "finished"]
    /\ IF ShouldStop(stop_on_disconnect, clients)
       THEN /\ shutdown_event' = TRUE
            /\ st_pc' = IF st_pc = "done" THEN "done" ELSE "cancelled"
       ELSE UNCHANGED <<shutdown_event, st_pc>>
    /\ UNCHANGED <<wait_for_client, stop_on_disconnect, clients, client_ready,
                   link, writer_closed, total_bytes, data, snapshot, todo,
                   cur, dead, received, served>>
    /\ UNCHANGED otherThanTcp

\* line 88: the test of the while loop
LoopTest(sd) == IF sd THEN "done" ELSE "read"

\* lines 85-88
WaitForClient ==
    /\ served = "serving"
    /\ st_pc = "wait_client"
    /\ client_ready
    /\ st_pc' = LoopTest(shutdown_event)
    /\ UNCHANGED <<wait_for_client, stop_on_disconnect, clients, client_ready,
                   shutdown_event, handler, link, writer_closed, total_bytes,
                   data, snapshot, todo, cur, dead, received,
                   served>>
    /\ UNCHANGED otherThanTcp

\* fault: the chunk is written twice
WriterWrite_twice(rc, w, ch) ==
    IF link[w] = "lost" THEN rc ELSE [rc EXCEPT ![w] = Append(Append(@, ch), ch)]

\* line 77: writer.write(chunk) hands the chunk to the transport, which
\* drops it when the connection is lost
WriterWrite(rc, w, ch) ==
    IF link[w] = "lost" THEN rc ELSE [rc EXCEPT ![w] = Append(@, ch)]

\* lines 81-82 and 88: the dead writers are closed one by one, then the
\* loop goes round
NextDead(snap, dd) ==
    /\ todo' = {}
    /\ cur' = 0
    /\ received' = received
    /\ IF dd # {}
       THEN \E d \in dd :
               /\ clients' = clients \ {d}
               /\ writer_closed' = [writer_closed EXCEPT ![d] = TRUE]
               /\ dead' = dd \ {d}
               /\ snapshot' = snap
               /\ st_pc' = "wait_closed"
       ELSE /\ dead' = {}
            /\ snapshot' = {}
            /\ st_pc' = LoopTest(shutdown_event)
            /\ UNCHANGED <<clients, writer_closed>>

\* lines 75-78: the next writer of the snapshot is written and drained
NextWriter(snap, td, dd, ch) ==
    IF td # {}
    THEN \E w \in td :
            /\ cur' = w
            /\ todo' = td \ {w}
            /\ dead' = dd
            /\ received' = WriterWrite(received, w, ch)
            /\ snapshot' = snap
            /\ st_pc' = "drain"
            /\ UNCHANGED <<clients, writer_closed>>
    ELSE NextDead(snap, dd)

\* lines 89-95 and 74-75: a chunk is read and its broadcast starts over
\* list(clients)
ReadChunk ==
    /\ served = "serving"
    /\ st_pc = "read"
    /\ total_bytes < MaxChunks
    /\ total_bytes' = total_bytes + 1
    /\ data' = total_bytes + 1
    /\ NextWriter(clients, clients, {}, total_bytes + 1)
    /\ UNCHANGED <<wait_for_client, stop_on_disconnect, client_ready,
                   shutdown_event, handler, link,  served>>
    /\ UNCHANGED otherThanTcp

\* lines 89-91: end of input
ReadEof ==
    /\ served = "serving"
    /\ st_pc = "read"
    /\ st_pc' = "done"
    /\ UNCHANGED <<wait_for_client, stop_on_disconnect, clients, client_ready,
                   shutdown_event, handler, link, writer_closed, total_bytes,
                   data, snapshot, todo, cur, dead, received,
                   served>>
    /\ UNCHANGED otherThanTcp

\* fault: the failed writer is not remembered
Dead_forgotten(dd, w) == dd

\* lines 79-80
Dead(dd, w) == dd \cup {w}

\* lines 78-80: drain() returns when the transport is not paused and raises
\* ConnectionResetError when the connection is lost; nothing bounds the wait
\* on a paused transport
Drain ==
    /\ served = "serving"
    /\ st_pc = "drain"
    /\ link[cur] # "stalled"
    /\ IF link[cur] = "lost"
       THEN NextWriter(snapshot, todo, Dead(dead, cur), data)
       ELSE NextWriter(snapshot, todo, dead, data)
    /\ UNCHANGED <<wait_for_client, stop_on_disconnect, client_ready,
                   shutdown_event, handler, link, total_bytes, data,
                    served>>
    /\ UNCHANGED otherThanTcp

\* line 82: close_client of a dead writer has returned
WaitClosed ==
    /\ served = "serving"
    /\ st_pc = "wait_closed"
    /\ NextDead(snapshot, dead)
    /\ UNCHANGED <<wait_for_client, stop_on_disconnect, client_ready,
                   shutdown_event, handler, link, total_bytes, data,
                    served>>
    /\ UNCHANGED otherThanTcp

\* lines 102-112: stdin_task has ended; the clients left are closed and the
\* server goes away
ServeExit ==
    /\ served = "serving"
    /\ st_pc \in {"done", "cancelled"}
    /\ served' = "exited"
    /\ clients' = {}
    /\ writer_closed' = [c \in Clients |-> writer_closed[c] \/ c \in clients]
    /\ UNCHANGED <<wait_for_client, stop_on_disconnect, client_ready,
                   shutdown_event, handler, link, st_pc, total_bytes, data,
                   snapshot, todo, cur, dead, received>>
    /\ UNCHANGED otherThanTcp

\* the steps of the consumer task
Consumer == WaitForClient \/ ReadChunk \/ ReadEof \/ Drain \/ WaitClosed

TcpNext ==
    \/ \E c \in Clients : Connect(c)
    \/ \E c \in Clients : ClientStalls(c)
    \/ \E c \in Clients : ClientResumes(c)
    \/ \E c \in Clients : ConnectionLost(c)
    \/ \E c \in Clients : HandlerClose(c)
    \/ \E c \in Clients : HandlerFinish(c)
    \/ WaitForClient
    \/ ReadChunk
    \/ ReadEof
    \/ Drain
    \/ WaitClosed
    \/ ServeExit

(***************************************************************************)
(* The HLS repacker (hls_repacker.py): repack.  A source segment is the    *)
(* number of its URI, 1, 2, ... in the order in which the upstream writes  *)
(* them into its manifest; an output segment segment_NNNNN.ts is           *)
(* <<"segment", N>>.  A line of a manifest is a tuple: the tag and its     *)
(* value, or a segment name.  output_dir[n + 1] is the source segment      *)
(* whose bytes are in output segment n.  hls_pc is "poll" (line 95),       *)
(* "segments" (the for loop of line 100 over pending, then the gap test    *)
(* of line 119), or "write_segment" / "write_gap": inside the write_text   *)
(* of line 117 / line 133, which opens index.m3u8 for writing, and so      *)
(* empties it, before it writes manifest_out into it.  manifest_file is    *)
(* what is in index.m3u8; emitted only observes: the names of the output   *)
(* segments in the order in which they were written.                       *)
(* What wait_for_segment sees of a file is the sequence of                 *)
(* its sizes at the polls before the deadline, 0 for a file that is not    *)
(* there or is empty.  Two variables only observe: skipped, the URIs that  *)
(* timed out, and stable_seen, the URIs whose polls saw one size three     *)
(* times with no other size in between.                                    *)
(***************************************************************************)
MaxSegments == 3

MaxOutput == 4

MaxKeep == 2

MaxPolls == 3

\* what a poll sees: no file or an empty one, or one of two sizes
Sizes == {0, 1, 2}

Observations == UNION {[1..n -> Sizes] : n \in 0..MaxPolls}

\* lines 47-59: the loop of wait_for_segment from poll i on
RECURSIVE WaitLoop(_, _, _, _)
WaitLoop(obs, i, last_size, stable) ==
    IF i > Len(obs)
    THEN FALSE
    ELSE IF obs[i] > 0
         THEN IF obs[i] = last_size
              THEN IF stable + 1 >= 2
                   THEN TRUE
                   ELSE WaitLoop(obs, i + 1, last_size, stable + 1)
              ELSE WaitLoop(obs, i + 1, obs[i], 0)
         ELSE WaitLoop(obs, i + 1, last_size, stable)

\* fault: the first sight of a file that is not empty is enough
wait_for_segment_first(obs) == \E i \in 1..Len(obs) : obs[i] > 0

\* lines 44-60
wait_for_segment(obs) == WaitLoop(obs, 1, 0 - 1, 0)

\* one size at three polls, and between them the same size or no file
StableRun(obs) ==
    \E i \in 1..Len(obs) : \E j \in (i + 1)..Len(obs) : \E k \in (j + 1)..Len(obs) :
        /\ obs[i] > 0
        /\ obs[j] = obs[i]
        /\ obs[k] = obs[i]
        /\ \A m \in i..k : obs[m] \in {0, obs[i]}

\* line 108
SegmentName(n) == <<"segment", n>>

\* line 112, lines 126-128
SegmentEntry(uri, duration, discontinuity) ==
    [uri |-> uri, duration |-> duration, discontinuity |-> discontinuity]

\* fault: the deque has no maxlen
DequeAppend_unbounded(dq, x, maxlen) == Append(dq, x)

\* line 88, lines 112 and 126: append to a deque(maxlen=keep_segments)
DequeAppend(dq, x, maxlen) ==
    IF maxlen = 0 THEN << >>
    ELSE IF Len(dq) = maxlen THEN Append(Tail(dq), x)
    ELSE Append(dq, x)

\* lines 74-78: the lines of the segments from the i-th on
RECURSIVE SegmentLines(_, _)
SegmentLines(segments, i) ==
    IF i > Len(segments)
    THEN << >>
    ELSE (IF segments[i].discontinuity THEN << <<"#EXT-X-DISCONTINUITY">> >> ELSE << >>)
         \o << <<"#EXTINF", segments[i].duration>>, segments[i].uri >>
         \o SegmentLines(segments, i + 1)

\* lines 67-79
build_manifest(segments) ==
    << <<"#EXTM3U">>,
       <<"#EXT-X-VERSION", 3>>,
       <<"#EXT-X-TARGETDURATION", 6>>,
       <<"#EXT-X-MEDIA-SEQUENCE", 0>> >>
    \o SegmentLines(segments, 1)

\* line 142: the default of --segment-duration
segment_duration == 4

HlsInit(keep, gap) ==
    /\ keep_segments = keep
    /\ gap_timeout = gap
    /\ hls_pc = "poll"
    /\ manifest_in = << >>
    /\ n_src = 0
    /\ pending = << >>
    /\ processed = {}
    /\ sequence = 0
    /\ recent_segments = << >>
    /\ last_output_path = None
    /\ manifest_out = None
    /\ output_dir = << >>
    /\ skipped = {}
    /\ stable_seen = {}
    /\ manifest_file = None
    /\ emitted = << >>

\* the upstream adds a segment to its manifest
UpstreamAdds ==
    /\ n_src < MaxSegments
    /\ n_src' = n_src + 1
    /\ manifest_in' = Append(manifest_in, n_src + 1)
    /\ UNCHANGED <<keep_segments, gap_timeout, hls_pc, pending, processed,
                   sequence, recent_segments, last_output_path, manifest_out,
                   output_dir, skipped, stable_seen>>
    /\ UNCHANGED <<manifest_file, emitted>>
    /\ UNCHANGED otherThanHls

\* the upstream drops the oldest segment from its manifest
UpstreamDrops ==
    /\ manifest_in # << >>
    /\ manifest_in' = Tail(manifest_in)
    /\ UNCHANGED <<keep_segments, gap_timeout, hls_pc, n_src, pending,
                   processed, sequence, recent_segments, last_output_path,
                   manifest_out, output_dir, skipped, stable_seen>>
    /\ UNCHANGED <<manifest_file, emitted>>
    /\ UNCHANGED otherThanHls

\* lines 95-98 and 30-41: the manifest is read; an empty one is read again
\* after the poll interval
Poll ==
    /\ hls_pc = "poll"
    /\ manifest_in # << >>
    /\ pending' = manifest_in
    /\ hls_pc' = "segments"
    /\ UNCHANGED <<keep_segments, gap_timeout, manifest_in, n_src, processed,
                   sequence, recent_segments, last_output_path, manifest_out,
                   output_dir, skipped, stable_seen>>
    /\ UNCHANGED <<manifest_file, emitted>>
    /\ UNCHANGED otherThanHls

\* lines 100-102
SkipProcessed ==
    /\ hls_pc = "segments"
    /\ pending # << >>
    /\ Head(pending) \in processed
    /\ pending' = Tail(pending)
    /\ UNCHANGED <<keep_segments, gap_timeout, hls_pc, manifest_in, n_src,
                   processed, sequence, recent_segments, last_output_path,
                   manifest_out, output_dir, skipped, stable_seen>>
    /\ UNCHANGED <<manifest_file, emitted>>
    /\ UNCHANGED otherThanHls

\* what the polls of one wait see goes into stable_seen
Seen(uri, obs) == IF StableRun(obs) THEN stable_seen \cup {uri} ELSE stable_seen

\* lines 103-106: the wait ends at its deadline
SegmentTimeout(obs) ==
    /\ hls_pc = "segments"
    /\ pending # << >>
    /\ Head(pending) \notin processed
    /\ ~wait_for_segment(obs)
    /\ processed' = processed \cup {Head(pending)}
    /\ skipped' = skipped \cup {Head(pending)}
    /\ stable_seen' = Seen(Head(pending), obs)
    /\ pending' = Tail(pending)
    /\ UNCHANGED <<keep_segments, gap_timeout, hls_pc, manifest_in, n_src,
                   sequence, recent_segments, last_output_path, manifest_out,
                   output_dir>>
    /\ UNCHANGED <<manifest_file, emitted>>
    /\ UNCHANGED otherThanHls

\* lines 108-117: the segment is copied under the next name and the
\* manifest is written
SegmentReady(obs) ==
    /\ hls_pc = "segments"
    /\ pending # << >>
    /\ Head(pending) \notin processed
    /\ wait_for_segment(obs)
    /\ output_dir' = Append(output_dir, Head(pending))
    /\ recent_segments' =
           DequeAppend(recent_segments,
                       SegmentEntry(SegmentName(sequence), segment_duration, FALSE),
                       keep_segments)
    /\ processed' = processed \cup {Head(pending)}
    /\ sequence' = sequence + 1
    /\ last_output_path' = SegmentName(sequence)
    /\ manifest_out' = build_manifest(recent_segments')
    /\ stable_seen' = Seen(Head(pending), obs)
    /\ pending' = Tail(pending)
    /\ emitted' = Append(emitted, SegmentName(sequence))
    /\ manifest_file' = << >>
    /\ hls_pc' = "write_segment"
    /\ UNCHANGED <<keep_segments, gap_timeout, manifest_in, n_src,
                   skipped>>
    /\ UNCHANGED otherThanHls

\* lines 119-124: the test of the gap filler but for the clock
GapPossible ==
    /\ gap_timeout > 0
    /\ last_output_path # None
    /\ recent_segments # << >>

\* a gap filler that does not count the segment it writes
GapFill_sameNumber ==
    /\ hls_pc = "segments"
    /\ pending = << >>
    /\ GapPossible
    /\ sequence < MaxOutput
    /\ output_dir' = Append(output_dir, output_dir[last_output_path[2] + 1])
    /\ recent_segments' =
           DequeAppend(recent_segments,
                       SegmentEntry(SegmentName(sequence), segment_duration, TRUE),
                       keep_segments)
    /\ sequence' = sequence
    /\ manifest_out' = build_manifest(recent_segments')
    /\ emitted' = Append(emitted, SegmentName(sequence))
    /\ manifest_file' = << >>
    /\ hls_pc' = "write_gap"
    /\ UNCHANGED <<keep_segments, gap_timeout, manifest_in, n_src, pending,
                   processed, last_output_path, skipped, stable_seen>>
    /\ UNCHANGED otherThanHls

\* lines 119-135: the last copied segment is copied again under the next
\* name, marked as a discontinuity, when gap_timeout has gone by since the
\* last source segment
GapFill ==
    /\ hls_pc = "segments"
    /\ pending = << >>
    /\ GapPossible
    /\ sequence < MaxOutput
    /\ output_dir' = Append(output_dir, output_dir[last_output_path[2] + 1])
    /\ recent_segments' =
           DequeAppend(recent_segments,
                       SegmentEntry(SegmentName(sequence), segment_duration, TRUE),
                       keep_segments)
    /\ sequence' = sequence + 1
    /\ manifest_out' = build_manifest(recent_segments')
    /\ emitted' = Append(emitted, SegmentName(sequence))
    /\ manifest_file' = << >>
    /\ hls_pc' = "write_gap"
    /\ UNCHANGED <<keep_segments, gap_timeout, manifest_in, n_src, pending,
                   processed, last_output_path, skipped, stable_seen>>
    /\ UNCHANGED otherThanHls

\* lines 119-135: no gap to fill
NoGap ==
    /\ hls_pc = "segments"
    /\ pending = << >>
    /\ hls_pc' = "poll"
    /\ UNCHANGED <<keep_segments, gap_timeout, manifest_in, n_src, pending,
                   processed, sequence, recent_segments, last_output_path,
                   manifest_out, output_dir, skipped, stable_seen>>
    /\ UNCHANGED <<manifest_file, emitted>>
    /\ UNCHANGED otherThanHls

\* lines 117 and 133: write_text writes the manifest into the file it has
\* opened and closes it
WriteManifest ==
    /\ hls_pc \in {"write_segment", "write_gap"}
    /\ manifest_file' = manifest_out
    /\ hls_pc' = IF hls_pc = "write_segment" THEN "segments" ELSE "poll"
    /\ UNCHANGED <<keep_segments, gap_timeout, manifest_in, n_src, pending,
                   processed, sequence, recent_segments, last_output_path,
                   manifest_out, output_dir, skipped, stable_seen, emitted>>
    /\ UNCHANGED otherThanHls

\* the steps of the repacker itself
Repack ==
    \/ Poll
    \/ SkipProcessed
    \/ \E obs \in Observations : SegmentTimeout(obs)
    \/ \E obs \in Observations : SegmentReady(obs)
    \/ GapFill
    \/ NoGap
    \/ WriteManifest

HlsNext ==
    \/ UpstreamAdds
    \/ UpstreamDrops
    \/ Poll
    \/ SkipProcessed
    \/ \E obs \in Observations : SegmentTimeout(obs)
    \/ \E obs \in Observations : SegmentReady(obs)
    \/ GapFill
    \/ NoGap
    \/ WriteManifest

(***************************************************************************)
(* The stub transcode manager (server/transcode/stub.py) and the play      *)
(* endpoints of the web application over it (server/web/app.py).  The      *)
(* three dicts of the manager are functions whose domain is the set of     *)
(* their keys.  A task of _simulate_metrics is a record of its number and  *)
(* its op_id; tasks holds the tasks that have neither returned nor been    *)
(* cancelled, metric_tasks the number of the task registered for an op_id. *)
(* No method of the stub awaits anything, so a call is one step, and so is *)
(* a request to an endpoint.  clock is time.time() in whole seconds; it     *)
(* moves only under MgrTimedSpec, so that under MgrSpec a time tells only  *)
(* whether it is set.  returned is the last call and what it gave back.    *)
(* Two variables                                                           *)
(* only observe: lifecycle[op_id] holds the states the status of op_id has *)
(* had since it was created, used the op_ids that were ever started.       *)
(***************************************************************************)

\* the bound on the operation ids
MaxOps == 2

\* the bound on the number of tasks ever created
MaxTasks == 2

OpIds == 1..MaxOps

\* the profile the stub registers (lines 17-23)
profiles == [stub |-> [name |-> "stub", listen_port |-> 5001]]

\* the names a caller may give: the registered one and the default of
\* PlayStartRequest (app.py line 225)
ProfileNames == {"stub", "aga_low"}

\* the bound on the clock
MaxClock == 2

\* time.time()
Now == <<clock>>

\* dict.get(key)
DictGet(d, key) == IF key \in DOMAIN d THEN d[key] ELSE None

\* d[key] = value
DictSet(d, key, value) ==
    [k \in DOMAIN d \cup {key} |-> IF k = key THEN value ELSE d[k]]

\* d.pop(key, None)
DictPop(d, key) == [k \in DOMAIN d \ {key} |-> d[k]]

\* line 49: the profile of that name, or else the first one registered
ResolveProfile(profile_name) ==
    IF profile_name \in DOMAIN profiles THEN profiles[profile_name]
    ELSE profiles["stub"]

\* lines 50-61: the status of a started pipeline; restart_count and
\* last_error keep the defaults of PipelineStatus
PipelineStatus(op_id, profile, state) ==
    [op_id |-> op_id, profile |-> profile.name, state |-> state,
     started_at |-> Now, ended_at |-> None,
     listen_port |-> profile.listen_port,
     restart_count |-> 0, last_error |-> None]

\* line 63: the metrics of a started pipeline; the counters keep the
\* defaults of PipelineMetrics, taken as 0
PipelineMetrics(op_id) ==
    [op_id |-> op_id, bytes_total |-> 0, out_time_ms |-> 0,
     bitrate_kbps |-> 0, updated_at |-> None]

\* lines 99-115: the metrics follow from the time since started_at,
\* whatever the state of the pipeline
update_metrics(pl, ms, op_id) ==
    IF DictGet(pl, op_id) = None \/ DictGet(ms, op_id) = None THEN ms
    ELSE LET elapsed == IF clock > pl[op_id].started_at[1]
                        THEN clock - pl[op_id].started_at[1] ELSE 0
         IN  [ms EXCEPT ![op_id].out_time_ms = elapsed * 1000,
                        ![op_id].bytes_total = 187500 * elapsed,
                        ![op_id].bitrate_kbps = IF elapsed = 0 THEN 0 ELSE 1500,
                        ![op_id].updated_at = Now]

\* the manager as one value
Mgr == [pipelines |-> pipelines, metrics |-> metrics,
        metric_tasks |-> metric_tasks, tasks |-> tasks]

\* lines 75-77 and 82-84: the registered task is popped and cancelled
pop_task(m, op_id) ==
    [m EXCEPT !.metric_tasks = DictPop(@, op_id),
              !.tasks = IF op_id \in DOMAIN m.metric_tasks
                        THEN {t \in @ : t.id # m.metric_tasks[op_id]}
                        ELSE @]

\* lines 42-66: the manager after start_pipeline and the status it returns;
\* task is the number of the task that line 65 creates
start_pipeline(m, op_id, profile_name, task) ==
    LET profile == ResolveProfile(profile_name)
        status == PipelineStatus(op_id, profile, "running")
    IN  [m |-> [pipelines |-> DictSet(m.pipelines, op_id, status),
                metrics |-> DictSet(m.metrics, op_id, PipelineMetrics(op_id)),
                metric_tasks |-> DictSet(m.metric_tasks, op_id, task),
                tasks |-> m.tasks \cup {[id |-> task, op_id |-> op_id]}],
         value |-> status]

\* lines 68-78
stop_pipeline(m, op_id) ==
    IF DictGet(m.pipelines, op_id) = None THEN [m |-> m, value |-> FALSE]
    ELSE LET stopped == [m.pipelines EXCEPT ![op_id].state = "stopped",
                                            ![op_id].ended_at = Now]
             m1 == [m EXCEPT !.pipelines = stopped,
                             !.metrics = update_metrics(stopped, @, op_id)]
         IN  [m |-> pop_task(m1, op_id), value |-> TRUE]

\* lines 80-85
remove_pipeline(m, op_id) ==
    LET m1 == [m EXCEPT !.pipelines = DictPop(@, op_id)]
        m2 == pop_task(m1, op_id)
    IN  [m2 EXCEPT !.metrics = DictPop(@, op_id)]

\* fault: an op_id that is not there is given a status of its own
get_status_default(m, op_id) ==
    IF op_id \in DOMAIN m.pipelines THEN m.pipelines[op_id]
    ELSE PipelineStatus(op_id, profiles["stub"], "stopped")

\* lines 31-32
get_status(m, op_id) == DictGet(m.pipelines, op_id)

\* lines 34-40
get_metrics(m, op_id) ==
    IF DictGet(m.pipelines, op_id) = None \/ DictGet(m.metrics, op_id) = None
    THEN [m |-> m, value |-> None]
    ELSE LET m1 == [m EXCEPT !.metrics = update_metrics(m.pipelines, @, op_id)]
         IN  [m |-> m1, value |-> m1.metrics[op_id]]

\* app.py lines 236-250
pipeline_payload(status) ==
    [op_id |-> status.op_id, profile |-> status.profile,
     state |-> status.state, started_at |-> status.started_at,
     ended_at |-> status.ended_at, listen_port |-> status.listen_port,
     restart_count |-> status.restart_count,
     last_error |-> status.last_error]

\* app.py lines 253-260
metrics_payload(ms) ==
    [op_id |-> ms.op_id, bytes_total |-> ms.bytes_total,
     out_time_ms |-> ms.out_time_ms, bitrate_kbps |-> ms.bitrate_kbps,
     updated_at |-> ms.updated_at]

\* the answer of the endpoints for an op_id that is not there
NotFound == [code |-> 404, status |-> "error", message |-> "op_id unbekannt"]

\* the states a status has had: the state it has now is added when it
\* differs from the last one; a removed operation has none
Observe(pl) ==
    [op \in OpIds |->
        IF op \notin DOMAIN pl THEN << >>
        ELSE IF lifecycle[op] # << >>
                /\ lifecycle[op][Len(lifecycle[op])] = pl[op].state
             THEN lifecycle[op]
             ELSE Append(lifecycle[op], pl[op].state)]

\* the manager becomes m
Becomes(m) ==
    /\ pipelines' = m.pipelines
    /\ metrics' = m.metrics
    /\ metric_tasks' = m.metric_tasks
    /\ tasks' = m.tasks
    /\ lifecycle' = Observe(m.pipelines)

\* lines 16-26
MgrInit ==
    /\ pipelines = << >>
    /\ metrics = << >>
    /\ metric_tasks = << >>
    /\ tasks = {}
    /\ next_task = 0
    /\ returned = [call |-> "none"]
    /\ lifecycle = [op \in OpIds |-> << >>]
    /\ used = {}
    /\ clock = 0

\* a call of start_pipeline
StartPipeline(op_id, profile_name) ==
    /\ next_task < MaxTasks
    /\ LET r == start_pipeline(Mgr, op_id, profile_name, next_task + 1)
       IN  /\ Becomes(r.m)
           /\ returned' = [call |-> "start_pipeline", op_id |-> op_id,
                           profile_name |-> profile_name, value |-> r.value]
    /\ next_task' = next_task + 1
    /\ used' = used \cup {op_id}
    /\ UNCHANGED clock
    /\ UNCHANGED otherThanMgr

\* a call of stop_pipeline
StopPipeline(op_id) ==
    /\ LET r == stop_pipeline(Mgr, op_id)
       IN  /\ Becomes(r.m)
           /\ returned' = [call |-> "stop_pipeline", op_id |-> op_id,
                           success |-> r.value]
    /\ UNCHANGED <<next_task, used>>
    /\ UNCHANGED clock
    /\ UNCHANGED otherThanMgr

\* a call of remove_pipeline
RemovePipeline(op_id) ==
    /\ Becomes(remove_pipeline(Mgr, op_id))
    /\ returned' = [call |-> "remove_pipeline", op_id |-> op_id,
                    value |-> None]
    /\ UNCHANGED <<next_task, used>>
    /\ UNCHANGED clock
    /\ UNCHANGED otherThanMgr

\* a call of get_status
GetStatus(op_id) ==
    /\ returned' = [call |-> "get_status", op_id |-> op_id,
                    value |-> get_status(Mgr, op_id)]
    /\ UNCHANGED <<pipelines, metrics, metric_tasks, tasks, next_task,
                   lifecycle, used>>
    /\ UNCHANGED clock
    /\ UNCHANGED otherThanMgr

\* a call of get_metrics
GetMetrics(op_id) ==
    /\ LET r == get_metrics(Mgr, op_id)
       IN  /\ Becomes(r.m)
           /\ returned' = [call |-> "get_metrics", op_id |-> op_id,
                           value |-> r.value]
    /\ UNCHANGED <<next_task, used>>
    /\ UNCHANGED clock
    /\ UNCHANGED otherThanMgr

\* lines 87-97: a task of _simulate_metrics runs, for the first time or
\* after its sleep; it returns when its pipeline is gone or not running
SimulateMetrics(t) ==
    /\ t \in tasks
    /\ LET status == DictGet(pipelines, t.op_id)
           done == status = None \/ status.state # "running"
       IN  /\ metrics' = update_metrics(pipelines, metrics, t.op_id)
           /\ tasks' = IF done THEN tasks \ {t} ELSE tasks
    /\ UNCHANGED <<pipelines, metric_tasks, next_task, returned, lifecycle,
                   used>>
    /\ UNCHANGED clock
    /\ UNCHANGED otherThanMgr

\* app.py lines 1024-1055: POST /play/start; the op_id is a new uuid
PlayStart(op_id, profile_name) ==
    /\ op_id \notin used
    /\ next_task < MaxTasks
    /\ LET r == start_pipeline(Mgr, op_id, profile_name, next_task + 1)
       IN  /\ Becomes(r.m)
           /\ returned' = [call |-> "play_start", op_id |-> op_id,
                           profile_name |-> profile_name, code |-> 200,
                           status |-> "ffmpeg erfolgreich gestartet",
                           profile |-> r.value.profile,
                           details |-> pipeline_payload(r.value)]
    /\ next_task' = next_task + 1
    /\ used' = used \cup {op_id}
    /\ UNCHANGED clock
    /\ UNCHANGED otherThanMgr

\* app.py lines 1058-1080: POST /play/stop stops the pipeline and removes it
PlayStop(op_id) ==
    /\ LET r == stop_pipeline(Mgr, op_id)
       IN  IF ~r.value
           THEN /\ Becomes(r.m)
                /\ returned' = [call |-> "play_stop", op_id |-> op_id] @@ NotFound
           ELSE /\ Becomes(remove_pipeline(r.m, op_id))
                /\ returned' = [call |-> "play_stop", op_id |-> op_id,
                                code |-> 200, status |-> "gestoppt"]
    /\ UNCHANGED <<next_task, used>>
    /\ UNCHANGED clock
    /\ UNCHANGED otherThanMgr

\* app.py lines 1083-1112: GET /play/status/{op_id}
PlayStatus(op_id) ==
    /\ LET status == get_status(Mgr, op_id)
       IN  returned' =
               IF status = None
               THEN [call |-> "play_status", op_id |-> op_id] @@ NotFound
               ELSE [call |-> "play_status", op_id |-> op_id, code |-> 200,
                     status |-> "ok", details |-> pipeline_payload(status)]
    /\ UNCHANGED <<pipelines, metrics, metric_tasks, tasks, next_task,
                   lifecycle, used>>
    /\ UNCHANGED clock
    /\ UNCHANGED otherThanMgr

\* app.py lines 1115-1136: GET /op/{op_id}/metrics
PlayMetrics(op_id) ==
    /\ LET r == get_metrics(Mgr, op_id)
           status == get_status(r.m, op_id)
       IN  /\ Becomes(r.m)
           /\ returned' =
                  IF r.value = None
                  THEN [call |-> "play_metrics", op_id |-> op_id] @@ NotFound
                  ELSE [call |-> "play_metrics", op_id |-> op_id,
                        code |-> 200, status |-> "ok",
                        metrics |-> metrics_payload(r.value),
                        restart_count |-> status.restart_count,
                        state |-> status.state]
    /\ UNCHANGED <<next_task, used>>
    /\ UNCHANGED clock
    /\ UNCHANGED otherThanMgr

\* a second passes
Tick ==
    /\ clock < MaxClock
    /\ clock' = clock + 1
    /\ UNCHANGED <<pipelines, metrics, metric_tasks, tasks, next_task,
                   returned, lifecycle, used>>
    /\ UNCHANGED otherThanMgr

MgrNext ==
    \/ \E op_id \in OpIds : \E profile_name \in ProfileNames :
           StartPipeline(op_id, profile_name)
    \/ \E op_id \in OpIds : StopPipeline(op_id)
    \/ \E op_id \in OpIds : RemovePipeline(op_id)
    \/ \E op_id \in OpIds : GetStatus(op_id)
    \/ \E op_id \in OpIds : GetMetrics(op_id)
    \/ \E id \in 1..MaxTasks : \E op_id \in OpIds :
           SimulateMetrics([id |-> id, op_id |-> op_id])
    \/ \E op_id \in OpIds : \E profile_name \in ProfileNames :
           PlayStart(op_id, profile_name)
    \/ \E op_id \in OpIds : PlayStop(op_id)
    \/ \E op_id \in OpIds : PlayStatus(op_id)
    \/ \E op_id \in OpIds : PlayMetrics(op_id)

(***************************************************************************)
(* The pipeline supervisor of one operation (spec, 4.1): the state machine *)
(* of the operation, its monitor task and the stop request.  sup_proc is   *)
(* the process chain of the operation: "none", "alive", "failed" (it       *)
(* exited unexpectedly), "ended" (it came to its end) or "terminated" (by  *)
(* stop).  sup_monitor is where the monitor task is: "idle" before the     *)
(* start, "waiting" on the exit of the chain, "backoff" between a restart  *)
(* decision and the respawn, "done".  sup_cap is the retry cap of the      *)
(* active strategy.  Two variables only observe: sup_spawns counts the     *)
(* spawns of the chain, sup_exits its unexpected exits.                    *)
(***************************************************************************)

\* the bound on the retry cap of a strategy
MaxRetries == 2

\* the bound on the number of unexpected exits of the chain
MaxExits == 3

\* fault: a strategy that never vetoes
Permits_always(count, cap) == TRUE

\* the strategy permits a retry until its cap is reached
Permits(count, cap) == count < cap

\* fault: the respawn does not look at the stop request
Suppressed_never(stop_requested) == FALSE

\* a scheduled respawn is suppressed once stop is requested
Suppressed(stop_requested) == stop_requested

SupInit(cap) ==
    /\ sup_state = "starting"
    /\ sup_restart_count = 0
    /\ sup_last_error = None
    /\ sup_proc = "none"
    /\ sup_stop_requested = FALSE
    /\ sup_monitor = "idle"
    /\ sup_spawns = 0
    /\ sup_exits = 0
    /\ sup_cap = cap

\* start: the chain is spawned and the operation is running
SupStart ==
    /\ sup_state = "starting"
    /\ sup_proc = "none"
    /\ sup_proc' = "alive"
    /\ sup_spawns' = sup_spawns + 1
    /\ sup_state' = "running"
    /\ sup_monitor' = "waiting"
    /\ UNCHANGED <<sup_restart_count, sup_last_error, sup_stop_requested,
                   sup_exits, sup_cap>>
    /\ UNCHANGED otherThanSup

\* the chain exits of itself: unexpectedly, or at its end
ChainExits(how) ==
    /\ sup_proc = "alive"
    /\ how = "failed" => sup_exits < MaxExits
    /\ sup_proc' = how
    /\ sup_exits' = IF how = "failed" THEN sup_exits + 1 ELSE sup_exits
    /\ UNCHANGED <<sup_state, sup_restart_count, sup_last_error,
                   sup_stop_requested, sup_monitor, sup_spawns, sup_cap>>
    /\ UNCHANGED otherThanSup

\* the monitor wakes on the exit of the chain: with a stop requested it has
\* nothing to decide; an unexpected exit is counted and leads to restarting
\* when the strategy permits a retry, and to error when it vetoes
MonitorObserves ==
    /\ sup_monitor = "waiting"
    /\ sup_proc \in {"failed", "ended", "terminated"}
    /\ IF sup_stop_requested \/ sup_proc = "terminated"
       THEN /\ sup_monitor' = "done"
            /\ UNCHANGED <<sup_state, sup_restart_count, sup_last_error>>
       ELSE IF sup_proc = "ended"
       THEN /\ sup_monitor' = "done"
            /\ sup_state' = "completed"
            /\ UNCHANGED <<sup_restart_count, sup_last_error>>
       ELSE IF Permits(sup_restart_count, sup_cap)
       THEN /\ sup_monitor' = "backoff"
            /\ sup_state' = "restarting"
            /\ sup_restart_count' = sup_restart_count + 1
            /\ sup_last_error' = <<"unexpected exit">>
       ELSE /\ sup_monitor' = "done"
            /\ sup_state' = "error"
            /\ sup_last_error' = <<"retry cap reached">>
            /\ UNCHANGED sup_restart_count
    /\ UNCHANGED <<sup_proc, sup_stop_requested, sup_spawns, sup_exits,
                   sup_cap>>
    /\ UNCHANGED otherThanSup

\* the backoff is over: the chain is spawned again, unless a stop has been
\* requested in the meantime; a spawn that fails ends in error
Respawn(spawned) ==
    /\ sup_monitor = "backoff"
    /\ IF Suppressed(sup_stop_requested)
       THEN /\ sup_monitor' = "done"
            /\ UNCHANGED <<sup_state, sup_proc, sup_spawns, sup_last_error>>
       ELSE IF spawned
       THEN /\ sup_monitor' = "waiting"
            /\ sup_state' = "running"
            /\ sup_proc' = "alive"
            /\ sup_spawns' = sup_spawns + 1
            /\ UNCHANGED sup_last_error
       ELSE /\ sup_monitor' = "done"
            /\ sup_state' = "error"
            /\ sup_last_error' = <<"spawn failed">>
            /\ UNCHANGED <<sup_proc, sup_spawns>>
    /\ UNCHANGED <<sup_restart_count, sup_stop_requested, sup_exits, sup_cap>>
    /\ UNCHANGED otherThanSup

\* stop is requested for an operation that is running or restarting
StopRequest ==
    /\ sup_state \in {"running", "restarting"}
    /\ sup_stop_requested' = TRUE
    /\ sup_state' = "stopping"
    /\ UNCHANGED <<sup_restart_count, sup_last_error, sup_proc, sup_monitor,
                   sup_spawns, sup_exits, sup_cap>>
    /\ UNCHANGED otherThanSup

\* stop terminates the process group (signal, bounded wait, kill) and the
\* operation is stopped
StopTerminates ==
    /\ sup_state = "stopping"
    /\ sup_proc' = IF sup_proc = "alive" THEN "terminated" ELSE sup_proc
    /\ sup_state' = "stopped"
    /\ UNCHANGED <<sup_restart_count, sup_last_error, sup_stop_requested,
                   sup_monitor, sup_spawns, sup_exits, sup_cap>>
    /\ UNCHANGED otherThanSup

SupNext ==
    \/ SupStart
    \/ \E how \in {"failed", "ended"} : ChainExits(how)
    \/ MonitorObserves
    \/ \E spawned \in BOOLEAN : Respawn(spawned)
    \/ StopRequest
    \/ StopTerminates

(***************************************************************************)
(* The TCP wrapper (tcp_wrapper.py): serve accepts one client at a time    *)
(* and run_pipeline_to_socket launches the pipeline for it and forwards    *)
(* its output.  w_groups[i] is the process group of the i-th pipeline      *)
(* launched: "running" or "exited".  CURRENT_PIPELINE is the global of     *)
(* that name: None or <<i>> for the i-th pipeline.  w_pipe is the number   *)
(* of chunks waiting on the stdout of the last pipeline, w_conn the        *)
(* connection ("none", "open", "reset" when the client has gone).  w_pc    *)
(* is where serve is: "accept" (line 79), "launch" (line 46), "spawned"    *)
(* (Popen has returned, line 52), "relay" (lines 57-64), "terminate"       *)
(* (line 66), "close" (lines 83-86), "exited" (sys.exit in the signal      *)
(* handler).  Two variables only observe: w_accepted and w_sent.           *)
(***************************************************************************)

\* the bound on the number of clients accepted
MaxAccepts == 2

\* the bound on the chunks a pipeline writes
MaxWrapperChunks == 2

WrapperInit ==
    /\ w_pc = "accept"
    /\ CURRENT_PIPELINE = None
    /\ w_groups = << >>
    /\ w_conn = "none"
    /\ w_accepted = 0
    /\ w_pipe = 0
    /\ w_sent = 0

\* lines 18-31: the groups after _terminate_current_pipeline: the group of
\* CURRENT_PIPELINE gets SIGTERM and is waited for at most 5 seconds; exits
\* tells whether it exits in that time.  Nothing follows a wait that times
\* out.
terminate_current_pipeline(groups, current, exits) ==
    IF current = None THEN groups
    ELSE [groups EXCEPT ![current[1]] = IF exits THEN "exited" ELSE @]

\* line 79: a client connects
Accept ==
    /\ w_pc = "accept"
    /\ w_accepted < MaxAccepts
    /\ w_conn' = "open"
    /\ w_accepted' = w_accepted + 1
    /\ w_pc' = "launch"
    /\ UNCHANGED <<CURRENT_PIPELINE, w_groups, w_pipe, w_sent>>
    /\ UNCHANGED otherThanWrapper

\* lines 46-52: Popen starts the pipeline in a process group of its own
Launch ==
    /\ w_pc = "launch"
    /\ w_groups' = Append(w_groups, "running")
    /\ w_pipe' = 0
    /\ w_pc' = "spawned"
    /\ UNCHANGED <<CURRENT_PIPELINE, w_conn, w_accepted, w_sent>>
    /\ UNCHANGED otherThanWrapper

\* lines 54-55
SetCurrent ==
    /\ w_pc = "spawned"
    /\ CURRENT_PIPELINE' = <<Len(w_groups)>>
    /\ w_pc' = "relay"
    /\ UNCHANGED <<w_groups, w_conn, w_accepted, w_pipe, w_sent>>
    /\ UNCHANGED otherThanWrapper

\* lines 57-64: one turn of the loop: the read returns a chunk, which is
\* sent, or end of file; the loop ends at end of file and when the client
\* has gone
Forward ==
    /\ w_pc = "relay"
    /\ w_pipe > 0 \/ w_groups[CURRENT_PIPELINE[1]] = "exited"
    /\ IF w_pipe > 0
       THEN /\ w_pipe' = w_pipe - 1
            /\ IF w_conn = "open"
               THEN w_sent' = w_sent + 1 /\ w_pc' = "relay"
               ELSE w_sent' = w_sent /\ w_pc' = "terminate"
       ELSE /\ w_pc' = "terminate"
            /\ UNCHANGED <<w_pipe, w_sent>>
    /\ UNCHANGED <<CURRENT_PIPELINE, w_groups, w_conn, w_accepted>>
    /\ UNCHANGED otherThanWrapper

\* line 66: the finally of run_pipeline_to_socket
TerminateCurrent(exits) ==
    /\ w_pc = "terminate"
    /\ w_groups' = terminate_current_pipeline(w_groups, CURRENT_PIPELINE, exits)
    /\ CURRENT_PIPELINE' = None
    /\ w_pc' = "close"
    /\ UNCHANGED <<w_conn, w_accepted, w_pipe, w_sent>>
    /\ UNCHANGED otherThanWrapper

\* lines 82-86: the finally of serve, and back to accept
CloseConn ==
    /\ w_pc = "close"
    /\ w_conn' = "none"
    /\ w_pc' = "accept"
    /\ UNCHANGED <<CURRENT_PIPELINE, w_groups, w_accepted, w_pipe, w_sent>>
    /\ UNCHANGED otherThanWrapper

\* lines 34-36: SIGTERM or SIGINT reaches the wrapper, between any two
\* steps of serve: the handler terminates the current pipeline and exits
HandleSignal(exits) ==
    /\ w_pc # "exited"
    /\ w_groups' = terminate_current_pipeline(w_groups, CURRENT_PIPELINE, exits)
    /\ CURRENT_PIPELINE' = None
    /\ w_conn' = "none"
    /\ w_pc' = "exited"
    /\ UNCHANGED <<w_accepted, w_pipe, w_sent>>
    /\ UNCHANGED otherThanWrapper

\* the last pipeline writes a chunk to its stdout
PipelineWrites ==
    /\ w_pc \in {"spawned", "relay"}
    /\ w_groups[Len(w_groups)] = "running"
    /\ w_pipe < MaxWrapperChunks
    /\ w_sent < MaxWrapperChunks
    /\ w_pipe' = w_pipe + 1
    /\ UNCHANGED <<w_pc, CURRENT_PIPELINE, w_groups, w_conn, w_accepted,
                   w_sent>>
    /\ UNCHANGED otherThanWrapper

\* a pipeline comes to its end of itself
PipelineEnds(i) ==
    /\ i \in 1..Len(w_groups)
    /\ w_pc # "exited"
    /\ w_groups[i] = "running"
    /\ w_groups' = [w_groups EXCEPT ![i] = "exited"]
    /\ UNCHANGED <<w_pc, CURRENT_PIPELINE, w_conn, w_accepted, w_pipe,
                   w_sent>>
    /\ UNCHANGED otherThanWrapper

\* the client goes away
ClientDisconnects ==
    /\ w_conn = "open"
    /\ w_conn' = "reset"
    /\ UNCHANGED <<w_pc, CURRENT_PIPELINE, w_groups, w_accepted, w_pipe,
                   w_sent>>
    /\ UNCHANGED otherThanWrapper

WrapperNext ==
    \/ Accept
    \/ Launch
    \/ SetCurrent
    \/ Forward
    \/ \E exits \in BOOLEAN : TerminateCurrent(exits)
    \/ CloseConn
    \/ \E exits \in BOOLEAN : HandleSignal(exits)
    \/ PipelineWrites
    \/ \E i \in 1..MaxAccepts : PipelineEnds(i)
    \/ ClientDisconnects

vars == <<joinerVars, switchVars, tcpVars, hlsVars, mgrVars, supVars,
          wrapperVars>>

\* the options at their defaults: both policies of the TCP sink off,
\* 8 segments kept and a gap timeout of 20 seconds
Init ==
    /\ JoinerInit /\ SwitchInit /\ TcpInit(FALSE, FALSE) /\ HlsInit(8, 20)
    /\ MgrInit /\ SupInit(1) /\ WrapperInit

\* the TCP sink under each setting of its two policies
TcpSpecInit ==
    /\ JoinerInit /\ SwitchInit /\ HlsInit(8, 20) /\ MgrInit /\ SupInit(1) /\ WrapperInit
    /\ \E wfc \in BOOLEAN : \E sod \in BOOLEAN : TcpInit(wfc, sod)

TcpSpec == TcpSpecInit /\ [][TcpNext]_vars

\* the repacker with 1..MaxKeep segments kept, the gap filler off and on
HlsSpecInit ==
    /\ JoinerInit /\ SwitchInit /\ TcpInit(FALSE, FALSE) /\ MgrInit
    /\ SupInit(1) /\ WrapperInit
    /\ \E keep \in 1..MaxKeep : \E gap \in {0, 20} : HlsInit(keep, gap)

HlsSpec == HlsSpecInit /\ [][HlsNext]_vars

\* the stub transcode manager and the play endpoints over it
MgrSpec == Init /\ [][MgrNext]_vars

\* the same with the clock running
MgrTimedNext ==
    \/ MgrNext
    \/ Tick

MgrTimedSpec == Init /\ [][MgrTimedNext]_vars

\* the supervisor under each retry cap
SupSpecInit ==
    /\ JoinerInit /\ SwitchInit /\ TcpInit(FALSE, FALSE) /\ HlsInit(8, 20)
    /\ MgrInit /\ WrapperInit
    /\ \E cap \in 0..MaxRetries : SupInit(cap)

SupSpec == SupSpecInit /\ [][SupNext]_vars

\* a stop call runs to its end
FairSupSpec == SupSpec /\ WF_vars(StopTerminates)

WrapperSpec == Init /\ [][WrapperNext]_vars

Next == JoinerNext

Spec == Init /\ [][Next]_vars

SwitchSpec == Init /\ [][SwitchNext]_vars

\* the steps of main itself, as opposed to those of its children and of the
\* reader of the sink
SwitchStep ==
    \/ LoopHead
    \/ ReadLive
    \/ Handover
    \/ ReadPlaceholder
    \/ Relay
    \/ Finally

\* main keeps running while it can take a step, and the live process
\* eventually closes its output and exits
FairSwitchSpec ==
    /\ SwitchSpec
    /\ WF_vars(SwitchStep)
    /\ WF_vars(LiveStop)

(***************************************************************************)
(* Properties of the splicer, checked under Spec.                          *)
(***************************************************************************)

\* b + d = a modulo 2^33, stated on the limbs without any reduction
Congruent(a, b, d) ==
    \E c \in {0, 1}, k \in {0, 1} :
        /\ b[2] + d[2] = a[2] + c * LoMod
        /\ b[1] + d[1] + c = a[1] + k * HiMod

\* a + d < 2^33
NoWrapAdd(a, d) == a[1] + d[1] + ((a[2] + d[2]) \div LoMod) < HiMod

InHandParsed == packet # << >> /\ extract_pts(packet).kind = "parsed"

\* C1: once computed, pts_offset is the 33-bit value with
\* pts_offset = (placeholder_last_pts - first_live_pts) mod 2^33, and
\* (first_live_pts + pts_offset) mod 2^33 = placeholder_last_pts.
C1_OffsetLaw ==
    pts_offset # None =>
        /\ placeholder_last_pts # None
        /\ first_live_pts # None
        /\ IsTs(pts_offset)
        /\ Congruent(placeholder_last_pts, first_live_pts, pts_offset)
        /\ AddMask(first_live_pts, pts_offset) = placeholder_last_pts

\* C1 witness: an offset computed where the subtraction goes below zero
C1_Witness ==
    /\ pts_offset # None
    /\ TsLess(placeholder_last_pts, first_live_pts)
    /\ max_placeholder_out # None

\* C2: for every valid 5-byte timestamp field f of a packet in hand,
\* encode_pts(decode_pts(f)) = f.
C2_RoundTrip ==
    InHandParsed =>
        LET parsed == extract_pts(packet)
            f      == Slice(packet, parsed.pts_pos, parsed.pts_pos + 5)
            g      == IF parsed.dts_pos # None
                      THEN Slice(packet, parsed.dts_pos[1], parsed.dts_pos[1] + 5)
                      ELSE f
        IN  /\ ValidField(f) => encode_pts(decode_pts(f)) = f
            /\ ValidField(g) => encode_pts(decode_pts(g)) = g

\* wrong sync byte, or fewer than 188 bytes read
Malformed(p) == Len(p) < TS_PACKET_SIZE \/ p[1] # 71

\* C3: a malformed or truncated packet, on either path, is handled without
\* an exception and written byte-identical to what was read.
C3_MalformedPassThrough ==
    (packet # << >> /\ Malformed(packet) /\ pc # "handle") => written = packet

\* C3 witness: a truncated live packet written while an offset is in force
C3_Witness ==
    /\ pc = "flush"
    /\ use_live
    /\ pts_offset # None /\ pts_offset # TsZero
    /\ Len(packet) < TS_PACKET_SIZE
    /\ written = packet

\* C4: extract_pts returns a result or None on every 188-byte packet, so
\* the loop is never left by an exception.
C4_NeverRaises ==
    /\ pc # "crashed"
    /\ packet # << >> => extract_pts(packet).kind # "IndexError"

\* C5: with the offset computed, a live packet with a decodable timestamp
\* is written with PTS (PTS + pts_offset) mod 2^33 and, if it has a DTS,
\* with DTS (DTS + pts_offset) mod 2^33, at the positions they were read.
C5_LiveShifted ==
    (pc = "flush" /\ use_live /\ InHandParsed) =>
        LET parsed == extract_pts(packet)
            out    == extract_pts(written)
        IN  /\ pts_offset # None
            /\ out.kind = "parsed"
            /\ out.pts_pos = parsed.pts_pos
            /\ out.dts_pos = parsed.dts_pos
            /\ IsTs(out.pts)
            /\ Congruent(out.pts, parsed.pts, pts_offset)
            /\ parsed.dts # None =>
                  /\ IsTs(out.dts)
                  /\ Congruent(out.dts, parsed.dts, pts_offset)
            /\ parsed.dts = None => out.dts = None

\* C5 witness: placeholder maximum 90000, first live PTS 0, offset 90000,
\* a later live PTS 9000 written as 99000
C5_Witness ==
    /\ pc = "flush" /\ use_live /\ InHandParsed
    /\ max_placeholder_out = Ts90000
    /\ first_live_pts = TsZero
    /\ pts_offset = Ts90000
    /\ extract_pts(packet).pts = Ts9000
    /\ extract_pts(packet).dts = TsZero
    /\ extract_pts(written).pts = Ts99000
    /\ extract_pts(written).dts = Ts90000

\* C6: pts_offset is set once, on the first live timestamp decoded, and
\* neither pts_offset nor first_live_pts changes after that.
C6_OffsetFixed ==
    /\ [](/\ offset_sets <= 1
          /\ (offset_sets = 1) = (pts_offset # None)
          /\ (pts_offset = None) = (first_live_pts = None)
          /\ (pts_offset = None) = (live_in_last = None))
    /\ [][pts_offset # None =>
             /\ pts_offset' = pts_offset
             /\ first_live_pts' = first_live_pts]_vars

\* C6 witness: a later live packet with another timestamp has been handled
C6_Witness ==
    /\ pc = "flush" /\ use_live /\ InHandParsed
    /\ offset_sets = 1
    /\ extract_pts(packet).pts # first_live_pts

\* the 0-based positions of the timestamp fields of a parsed packet
FieldPositions(parsed) ==
    (parsed.pts_pos .. parsed.pts_pos + 4)
    \cup (IF parsed.dts_pos # None
          THEN parsed.dts_pos[1] .. parsed.dts_pos[1] + 4
          ELSE {})

\* C7: a written packet has the length of the packet read and differs
\* from it only inside the PTS field and the DTS field; placeholder packets
\* and live packets without a decodable timestamp are written unchanged.
C7_Frame ==
    pc = "flush" =>
        /\ Len(written) = Len(packet)
        /\ IF use_live /\ InHandParsed
           THEN \A i \in 0..(Len(packet) - 1) :
                   B(written, i) # B(packet, i)
                       => i \in FieldPositions(extract_pts(packet))
           ELSE written = packet

\* C7 witness: a live packet whose PTS and DTS fields were both rewritten
C7_Witness ==
    /\ pc = "flush" /\ use_live /\ InHandParsed
    /\ extract_pts(packet).dts # None
    /\ extract_pts(written).pts # extract_pts(packet).pts
    /\ extract_pts(written).dts # extract_pts(packet).dts

\* a live presentation timestamp is being written and the live input
\* timestamps have been non-decreasing so far
LiveWriteInOrder ==
    /\ pc = "flush" /\ use_live /\ InHandParsed
    /\ live_in_monotone

NotBelowEarlierOutput ==
    /\ max_placeholder_out # None => TsLeq(max_placeholder_out, WrittenPts)
    /\ max_live_out # None => TsLeq(max_live_out, WrittenPts)

\* C8 as stated: with non-decreasing live timestamps, every presentation
\* timestamp written on the live path is >= the maximum written on the
\* placeholder path and >= every live timestamp written before it.
C8_NeverReverses == LiveWriteInOrder => NotBelowEarlierOutput

\* C8 amended: the same, for the live timestamps that do not carry the
\* output past 2^33: placeholder_last_pts + (PTS - first_live_pts) < 2^33.
C8_NeverReversesBelowWrap ==
    (/\ LiveWriteInOrder
     /\ NoWrapAdd(placeholder_last_pts,
                  SubMask(extract_pts(packet).pts, first_live_pts)))
        => NotBelowEarlierOutput

\* C8 witness: a live timestamp written above the placeholder maximum and
\* above an earlier live output, with a non-zero offset
C8_Witness ==
    /\ LiveWriteInOrder
    /\ NoWrapAdd(placeholder_last_pts,
                 SubMask(extract_pts(packet).pts, first_live_pts))
    /\ pts_offset # TsZero
    /\ max_placeholder_out # None
    /\ max_live_out # None
    /\ TsLess(max_placeholder_out, WrittenPts)
    /\ TsLess(max_live_out, WrittenPts)

InHand == IF hand = << >> THEN << >> ELSE <<hand>>

\* C9: the output is the packets read, in read order, less at most the one
\* packet in hand; placeholder packets precede live packets; every packet
\* is written and flushed before the next read; after the switch nothing
\* is read from the placeholder.
C9_SinglePass ==
    /\ out_log \o outbuf \o InHand = read_log
    /\ Len(outbuf) + Len(InHand) <= 1
    /\ pc = "read" => (outbuf = << >> /\ hand = << >>)
    /\ \A i, j \in 1..Len(read_log) :
          (i < j /\ read_log[i][1] = "live") => read_log[j][1] = "live"
    /\ \A i \in 1..Len(read_log) :
          read_log[i][2] = Cardinality({j \in 1..i : read_log[j][1] = read_log[i][1]})
    /\ use_live => placeholder_closed
    /\ (\E i \in 1..Len(read_log) : read_log[i][1] = "live") => use_live

\* C9 witness: placeholder packets, then live packets, all flushed
C9_Witness ==
    /\ pc = "read"
    /\ Len(out_log) >= 3
    /\ out_log[1][1] = "placeholder"
    /\ out_log[Len(out_log)][1] = "live"
    /\ out_log = read_log

(***************************************************************************)
(* Properties of the switch, checked under SwitchSpec.                     *)
(***************************************************************************)

\* C10: before the handover the live descriptor is in non-blocking mode
\* and the poll of the live pipe can always be taken, whether or not live
\* data is there; a poll that finds no chunk goes on to the placeholder
\* read, whose chunk is written to the sink; the placeholder read is
\* reached only through a poll; blocking mode is set only by the handover.
C10_NoStallOnLive ==
    /\ [](~live_started => live_nonblocking)
    /\ [](sw_pc = "read_live" => (~live_started /\ ENABLED ReadLive))
    /\ [][(sw_pc = "loop" /\ sw_pc' # "loop")
             => sw_pc' \in {"read_live", "finally"}]_vars
    /\ [][(sw_pc = "read_live" /\ sw_pc' # "read_live")
             => IF live_pipe = << >>
                THEN sw_pc' = "read_placeholder" /\ live_chunk' = None
                ELSE sw_pc' = "handover" /\ live_chunk' = Head(live_pipe)]_vars
    /\ [][(sw_pc # "read_placeholder" /\ sw_pc' = "read_placeholder")
             => sw_pc = "read_live"]_vars
    /\ [][(sw_pc = "read_placeholder" /\ sw_pc' # "read_placeholder"
           /\ ph_pipe # << >> /\ sink_open)
             => (sink' = Append(sink, Head(ph_pipe)) /\ sw_pc' = "loop")]_vars
    /\ [][(live_nonblocking /\ ~live_nonblocking')
             => (sw_pc = "handover" /\ live_started')]_vars

\* C10 witness: a poll found the running live chain silent while placeholder
\* chunks had already been relayed, and the loop is at the placeholder read
C10_Witness ==
    /\ sw_pc = "read_placeholder"
    /\ ~live_started
    /\ live_state = "running" /\ live_made = 0
    /\ live_chunk = None
    /\ sink = << <<"placeholder", 1>> >>
    /\ ph_pipe # << >>

(***************************************************************************)
(* Handover ordering.                                                      *)
(***************************************************************************)
\* the first k chunks the placeholder produced / the first m chunks the
\* live source produced
PlaceholderOutput(k) == [i \in 1..k |-> <<"placeholder", i>>]
LiveOutput(m) == [i \in 1..m |-> <<"live", i>>]

\* the sink holds a prefix of the placeholder output followed by the live
\* output from its first chunk
PrefixThenLive ==
    \E k \in 0..ph_made : \E m \in 0..live_made :
        sink = PlaceholderOutput(k) \o LiveOutput(m)

LiveInSink == Cardinality({i \in 1..Len(sink) : sink[i][1] = "live"})

\* every live chunk taken from the pipe is in the sink, but for the one in
\* hand between the poll and the handover write
NoLiveLoss ==
    /\ (sw_pc = "handover" /\ ~live_started) =>
           (live_chunk = <<"live", 1>> /\ LiveInSink = 0
            /\ live_made - Len(live_pipe) = 1)
    /\ (sw_pc # "handover" /\ sw_error # "BrokenPipeError") =>
           LiveInSink = live_made - Len(live_pipe)

\* C11: the handover happens at most once (live_started is set by the one
\* handover step and never reset), the live chunk that triggered it is
\* written before any further read of the live source, and the sink always
\* holds a prefix of the placeholder output followed by the live output from
\* its first chunk, in order and without loss.
C11_HandoverOrdering ==
    /\ [](PrefixThenLive /\ NoLiveLoss)
    /\ [](sw_pc = "handover" => ~live_started)
    /\ [](LiveInSink > 0 => live_started)
    /\ [](sw_pc = "relay" => (live_started /\ LiveInSink > 0))
    /\ [][live_started => live_started']_vars
    /\ [][(~live_started /\ live_started') => (sw_pc = "handover" /\ sw_pc' # "handover")]_vars
    /\ [][sw_pc = "handover" => Len(live_pipe') >= Len(live_pipe)]_vars

\* placeholder chunks, then the handover, then live chunks relayed
C11_Witness ==
    /\ live_started
    /\ sw_pc = "relay"
    /\ Len(sink) >= 3
    /\ sink[1][1] = "placeholder"
    /\ sink[Len(sink)] = <<"live", 2>>

(***************************************************************************)
(* Failure before the handover.                                            *)
(***************************************************************************)
\* C12 as stated: once the live process has exited without output, or the
\* placeholder process has exited, before the handover, the handover never
\* takes place.
C12_NoHandoverAfterExit ==
    [][(~live_started /\ (ph_state = "exited"
                          \/ (live_state = "exited" /\ live_made = 0)))
         => ~live_started']_vars

\* C12: before the handover, an iteration that finds the live process
\* exited, or that reads end of file from a placeholder that has exited,
\* aborts with RuntimeError; after the abort the handover never takes place
\* and the error leaves main; a live process without output never causes a
\* handover.
C12_AbortWhenExitNoticed ==
    /\ [][(sw_pc = "loop" /\ sw_pc' # "loop" /\ live_state = "exited")
            => (sw_error' = "RuntimeError" /\ sw_pc' = "finally")]_vars
    /\ [][(sw_pc = "read_placeholder" /\ sw_pc' # "read_placeholder"
           /\ ph_pipe = << >> /\ ph_state = "exited")
            => (sw_error' = "RuntimeError" /\ sw_pc' = "finally")]_vars
    /\ [](sw_error = "RuntimeError" =>
             (~live_started /\ LiveInSink = 0 /\ sw_pc \in {"finally", "exit"}))
    /\ [][sw_error = "RuntimeError" => sw_error' = "RuntimeError"]_vars
    /\ []((sw_pc = "exit" /\ sw_error = "RuntimeError") => sw_exit = "failed")
    /\ [](live_made = 0 => ~live_started)

\* the live process exited without output while the placeholder was relayed
C12_Witness ==
    /\ sw_pc = "exit"
    /\ sw_error = "RuntimeError"
    /\ sw_exit = "failed"
    /\ live_made = 0
    /\ ~live_started
    /\ Len(sink) >= 1

(***************************************************************************)
(* The sink consumer disappears.                                           *)
(***************************************************************************)
\* C13: a broken pipe on a sink write, before or after the handover, ends
\* the loop; both children are terminated, the sink is closed and main
\* returns without a failure.
C13_BrokenPipeIsClean ==
    /\ sw_error = "BrokenPipeError" => (~sink_open /\ sw_pc \in {"finally", "exit"})
    /\ (sw_pc = "exit" /\ sw_error = "BrokenPipeError") =>
           (/\ live_state = "exited"
            /\ ph_state = "exited"
            /\ fifo_closed
            /\ sw_exit = "ok")

\* the consumer left after the handover and the switch has ended
C13_Witness ==
    /\ sw_pc = "exit"
    /\ sw_error = "BrokenPipeError"
    /\ live_started
    /\ Len(sink) >= 2
    /\ sw_exit = "ok"

(***************************************************************************)
(* Properties of the TCP sink, checked under TcpSpec.                      *)
(***************************************************************************)
\* C14 as stated: a stalled client does not block the broadcast: a consumer
\* that waits in drain() for a stalled writer can go on, because the write
\* times out and the client is dropped.
C14_StallNeverBlocks ==
    (served = "serving" /\ st_pc = "drain" /\ link[cur] = "stalled")
        => ENABLED Consumer

Last(seq) == seq[Len(seq)]

\* the writers of the snapshot that the broadcast has passed were handed the
\* chunk, unless their connection is lost
SnapshotServed ==
    \A c \in snapshot \ todo :
        \/ link[c] = "lost"
        \/ (received[c] # << >> /\ Last(received[c]) = data)

\* C15: a writer whose drain fails with a lost connection is remembered as
\* dead (or closed at once), the loop goes on to the writers that are left,
\* every dead writer is removed from clients and closed before the next
\* read, and the other writers of the snapshot are handed the chunk.
C15_FailedWriterDropped ==
    /\ [][(Drain /\ link[cur] = "lost") =>
            /\ (cur \in dead' \/ (cur \notin clients' /\ writer_closed'[cur]))
            /\ st_pc' \in {"drain", "wait_closed", "read", "done"}
            /\ (todo # {} => (st_pc' = "drain" /\ todo' = todo \ {cur'}))]_vars
    /\ [][\A d \in Clients :
            (d \in dead /\ d \notin dead') =>
                (d \notin clients' /\ writer_closed'[d])]_vars
    /\ [](st_pc \in {"wait_client", "read", "done"} => dead = {})
    /\ [](\A d \in dead : link[d] = "lost")
    /\ []SnapshotServed

\* the first client was dropped by the broadcast, its handler has not yet
\* run; the second client was handed the chunk
C15_Witness ==
    /\ st_pc = "wait_closed"
    /\ snapshot = {1, 2}
    /\ writer_closed[1] /\ handler[1] = "reading" /\ 1 \notin clients
    /\ link[2] = "ok" /\ 2 \in clients
    /\ received[2] # << >> /\ Last(received[2]) = data

Contiguous(seq) ==
    /\ \A i \in 1..Len(seq) : seq[i] \in 1..total_bytes
    /\ \A i \in 1..(Len(seq) - 1) : seq[i + 1] = seq[i] + 1

\* C16: each broadcast goes over the clients connected when the chunk was
\* read and hands the chunk to each of them whose connection is not lost;
\* what a client is handed is a run of consecutive chunks, and a connected
\* client that has been handed a chunk is handed every later one (it is at
\* the chunk read last, or one behind while its turn is to come).
C16_BroadcastInOrder ==
    /\ [][ReadChunk => (snapshot' = clients /\ data' = total_bytes')]_vars
    /\ []SnapshotServed
    /\ [](\A c \in Clients : Contiguous(received[c]))
    /\ [](\A c \in clients :
            (link[c] # "lost" /\ received[c] # << >>) =>
                Last(received[c]) = IF c \in todo THEN total_bytes - 1
                                                  ELSE total_bytes)
    /\ [](todo \subseteq snapshot)

\* the first client was handed both chunks, the second, which connected
\* after the first chunk, the second chunk only
C16_Witness ==
    /\ received[1] = <<1, 2>>
    /\ received[2] = <<2>>
    /\ st_pc = "read"

C18_StopOnDisconnect ==
    /\ [](( /\ stop_on_disconnect
            /\ \E c \in Clients : handler[c] = "finished"
            /\ \A c \in Clients : handler[c] \in {"absent", "finished"} )
           => (shutdown_event /\ st_pc \in {"done", "cancelled"}))
    /\ [](shutdown_event => (stop_on_disconnect /\ st_pc \in {"done", "cancelled"}))
    /\ [][shutdown_event =>
            /\ shutdown_event'
            /\ total_bytes' = total_bytes
            /\ \A c \in Clients : Len(received'[c]) <= Len(received[c])]_vars
    /\ []((st_pc \in {"done", "cancelled"} /\ served = "serving")
            => ENABLED ServeExit)
    /\ [][\A c \in Clients :
            (HandlerFinish(c) /\ clients # {}) =>
                UNCHANGED <<shutdown_event, st_pc>>]_vars
    /\ [](st_pc = "cancelled" => shutdown_event)

\* both clients have gone, the second one last; the consumer was cancelled
\* with input left and the serve loop has exited
C18_Witness ==
    /\ stop_on_disconnect
    /\ handler[1] = "finished"
    /\ handler[2] = "finished"
    /\ shutdown_event
    /\ st_pc = "cancelled"
    /\ total_bytes = 1
    /\ served = "exited"

Uris(manifest) == SelectSeq(manifest, LAMBDA l : l[1] = "segment")

\* the names of the k output segments emitted last, in emission order
LastEmitted(k) == [i \in 1..k |-> SegmentName(sequence - k + i - 1)]

\* C20: once a segment has been emitted the manifest is the one built from
\* the window after the last emission: target duration 6, media sequence 0,
\* and the names of the segments emitted last, in emission order, as many as
\* were emitted but no more than keep_segments; each emission, copied or
\* synthesized, rewrites it.
C20_ManifestWindow ==
    /\ [](sequence = 0 <=> manifest_out = None)
    /\ [](sequence > 0 =>
            /\ manifest_out[3] = <<"#EXT-X-TARGETDURATION", 6>>
            /\ manifest_out[4] = <<"#EXT-X-MEDIA-SEQUENCE", 0>>
            /\ Uris(manifest_out) = LastEmitted(Min(keep_segments, sequence))
            /\ Len(Uris(manifest_out)) <= keep_segments
            /\ (sequence >= keep_segments => Len(Uris(manifest_out)) = keep_segments))
    /\ [][sequence' # sequence =>
            /\ sequence' = sequence + 1
            /\ manifest_out' # manifest_out
            /\ Uris(manifest_out')[Len(Uris(manifest_out'))] = SegmentName(sequence)]_vars

\* more segments emitted than are kept, a synthesized one in the window
C20_Witness ==
    /\ sequence > keep_segments
    /\ keep_segments = 2
    /\ \E i \in 1..Len(manifest_out) : manifest_out[i] = <<"#EXT-X-DISCONTINUITY">>
    /\ Len(Uris(manifest_out)) = 2

\* C21: a rewrite of the output manifest leaves in the file, at every step,
\* the complete manifest that was there or the complete new one; a reader
\* never finds it emptied or half written.
C21_AtomicReplace == [][manifest_file' \in {manifest_file, manifest_out'}]_vars

\* the gap filler is on, a segment has been delivered and the repacker is
\* at the head of its loop
GapDue == hls_pc = "poll" /\ GapPossible

\* C22: whenever a segment has been delivered and the gap filler is on, the
\* repacker goes on to the test of the gap at its next poll, whatever the
\* upstream manifest holds, so that a gap of gap_timeout is filled.
C22_GapAlwaysFilled == GapDue => ENABLED Poll

\* what the gap filler does when it runs: the bytes of the segment copied
\* last are written again under the next name, the entry is the last of the
\* window and carries the discontinuity mark, and the window holds at most
\* keep_segments entries
C22_GapFillStep ==
    [][GapFill =>
        /\ Len(output_dir') = Len(output_dir) + 1
        /\ output_dir'[Len(output_dir')] = output_dir[last_output_path[2] + 1]
        /\ Last(recent_segments') =
               SegmentEntry(SegmentName(sequence), segment_duration, TRUE)
        /\ Len(recent_segments') <= keep_segments]_vars

\* an upstream manifest with no segment left after a delivery
C22_Witness == GapDue /\ manifest_in = << >> /\ sequence > 0

\* C23: the names of the output segments, in the order of their emission,
\* are segment 0, 1, 2, ...: each emission, copied or synthesized, takes the
\* number after the one before it, whatever the upstream names and however
\* many segments were skipped, and no name is written twice.
C23_SequentialNames ==
    /\ [](emitted = [i \in 1..sequence |-> SegmentName(i - 1)])
    /\ [](Len(output_dir) = Len(emitted))
    /\ [](\A i \in 1..Len(emitted) : \A j \in 1..Len(emitted) :
             emitted[i] = emitted[j] => i = j)
    /\ [][emitted' # emitted =>
             emitted' = Append(emitted, SegmentName(Len(emitted)))]_vars

\* a segment was skipped, a later one copied and a gap filled after it
C23_Witness ==
    /\ skipped # {}
    /\ Len(emitted) >= 3
    /\ \E i \in 1..Len(output_dir) : output_dir[i] # i - 1
    /\ \E i \in 1..Len(recent_segments) : recent_segments[i].discontinuity
    /\ hls_pc = "poll"

(***************************************************************************)
(* The transcode manager: properties                                       *)
(***************************************************************************)

\* the changes of state the lifecycle of an operation allows
AllowedTransitions ==
    {<<"starting", "running">>, <<"running", "restarting">>,
     <<"running", "stopping">>, <<"running", "completed">>,
     <<"running", "error">>, <<"restarting", "running">>,
     <<"restarting", "error">>, <<"stopping", "stopped">>}

Terminal == {"stopped", "completed", "error"}

Known(op) == op \in DOMAIN pipelines

StateOf(op) == pipelines[op].state

\* a call that ended in an exception
Raised(value) == "raised" \in DOMAIN value

\* the simulate tasks of an operation that are alive
LiveTasks(op) == {t \in tasks : t.op_id = op}

\* C24: whenever the state of an operation changes, the change is one of
\* the allowed transitions; as none of them leaves stopped, completed or
\* error, an operation in a terminal state keeps its state under every call.
C24_LifecycleTransitions ==
    [][\A op \in OpIds :
          (Known(op) /\ op \in DOMAIN pipelines'
              /\ pipelines'[op].state # StateOf(op))
          => <<StateOf(op), pipelines'[op].state>> \in AllowedTransitions]_vars

\* C25: a start for an op_id whose operation is active ends in an error and
\* leaves the operation, its metrics and its task as they were, and no
\* op_id ever has more than one live task.
C25_NoSecondStart ==
    /\ [][\A op \in OpIds : \A pn \in ProfileNames :
            (StartPipeline(op, pn) /\ Known(op) /\ StateOf(op) \notin Terminal)
            => /\ Raised(returned'.value)
               /\ UNCHANGED <<pipelines, metrics, metric_tasks, tasks>>]_vars
    /\ [](\A op \in OpIds : Cardinality(LiveTasks(op)) <= 1)

\* C26: a start that names a profile that is not registered is rejected and
\* changes nothing: no operation, no metrics and no task is created.
C26_UnknownProfileRejected ==
    [][\A op \in OpIds : \A pn \in ProfileNames \ DOMAIN profiles :
          /\ StartPipeline(op, pn)
                => /\ Raised(returned'.value)
                   /\ UNCHANGED <<pipelines, metrics, metric_tasks, tasks>>
          /\ PlayStart(op, pn)
                => /\ returned'.code = 400
                   /\ UNCHANGED <<pipelines, metrics, metric_tasks, tasks>>]_vars

\* what a start gave back: a running operation of the op_id asked for, never
\* restarted and with no error
StartedRunning(status, op) ==
    /\ status.op_id = op
    /\ status.state = "running"
    /\ status.restart_count = 0
    /\ status.last_error = None

\* C27: a start that succeeds gives back a running operation with
\* restart_count 0 and no last_error, and from then on, until a call stops
\* it, get_status and get_metrics find that operation, running, under its
\* op_id.
C27_RunningUntilStopped ==
    /\ [](returned.call = "start_pipeline"
             => StartedRunning(returned.value, returned.op_id))
    /\ [](returned.call = "play_start"
             => /\ returned.code = 200
                /\ StartedRunning(returned.details, returned.op_id))
    /\ [][\A op \in OpIds :
            (Known(op) /\ StateOf(op) = "running"
                /\ ~StopPipeline(op) /\ ~PlayStop(op))
            => /\ get_status(Mgr', op) # None
               /\ get_status(Mgr', op).state = "running"
               /\ get_metrics(Mgr', op).value # None
               /\ get_metrics(Mgr', op).value.op_id = op]_vars

\* C28: a stop that gives back true has taken the operation through
\* stopping to stopped.
C28_StopPassesStopping ==
    (returned.call = "stop_pipeline" /\ returned.success)
    => LET lc == lifecycle[returned.op_id]
       IN  /\ Len(lc) >= 2
           /\ lc[Len(lc)] = "stopped"
           /\ lc[Len(lc) - 1] = "stopping"

\* the other half of the claim: a stop for an unknown op_id gives back
\* false and changes nothing, a stop for a known one gives back true and
\* leaves it stopped
C28_StopResult ==
    [][\A op \in OpIds :
          StopPipeline(op)
          => IF Known(op)
             THEN returned'.success /\ pipelines'[op].state = "stopped"
             ELSE /\ ~returned'.success
                  /\ UNCHANGED <<pipelines, metrics, metric_tasks, tasks>>]_vars

\* C29: an operation and its metrics go away only in a remove, and only
\* when the operation is in a terminal state (the stop endpoint stops the
\* operation before it removes it).
C29_RemoveOnlyTerminal ==
    [][\A op \in OpIds :
          ((Known(op) /\ op \notin DOMAIN pipelines')
              \/ (op \in DOMAIN metrics /\ op \notin DOMAIN metrics'))
          => \/ PlayStop(op)
             \/ RemovePipeline(op) /\ Known(op) /\ StateOf(op) \in Terminal]_vars

\* the calls that read
ReadCalls == {"get_status", "get_metrics", "play_status", "play_metrics"}

\* a read of the status or the metrics, by the manager or by an endpoint
Reads(op) ==
    GetStatus(op) \/ GetMetrics(op) \/ PlayStatus(op) \/ PlayMetrics(op)

\* C30: get_status and get_metrics never end in an exception and give back
\* None for an op_id that has no operation, never started or removed; the
\* endpoints answer 404 "op_id unbekannt" then; and no read changes the
\* state of any operation.
C30_NotFound ==
    [][returned'.call \in ReadCalls =>
          LET op == returned'.op_id
          IN  /\ (GetStatus(op) \/ GetMetrics(op))
                    => /\ ~Raised(returned'.value)
                       /\ ~Known(op) => returned'.value = None
              /\ ((PlayStatus(op) \/ PlayMetrics(op)) /\ ~Known(op))
                    => /\ returned'.code = 404
                       /\ returned'.message = "op_id unbekannt"
              /\ Reads(op)
                    => pipelines' = pipelines /\ lifecycle' = lifecycle]_vars

\* the metrics of a removed operation were asked for while another
\* operation is running
C30_Witness ==
    /\ returned.call = "get_metrics"
    /\ returned.value = None
    /\ returned.op_id \in used
    /\ ~Known(returned.op_id)
    /\ \E op \in OpIds : Known(op) /\ StateOf(op) = "running"

(***************************************************************************)
(* The splicer: the reference timestamp of the placeholder.                *)
(***************************************************************************)
\* C36: on the placeholder path placeholder_last_pts is the maximum of the
\* timestamps of the placeholder packets handled so far, unset when there
\* was none; once set it never goes down; and no live packet changes it
\* once a placeholder timestamp has been seen.
C36_PlaceholderMaximum ==
    /\ []((~use_live /\ pc \in {"select", "read"})
             => placeholder_last_pts = max_placeholder_out)
    /\ [][placeholder_last_pts # None
             => /\ placeholder_last_pts' # None
                /\ TsLeq(placeholder_last_pts, placeholder_last_pts')]_vars
    /\ [][(HandlePlaceholder /\ extract_pts(packet).kind = "parsed")
             => /\ TsLeq(extract_pts(packet).pts, placeholder_last_pts')
                /\ placeholder_last_pts' \in
                       {placeholder_last_pts, extract_pts(packet).pts}]_vars
    /\ [][(use_live /\ max_placeholder_out # None)
             => placeholder_last_pts' = placeholder_last_pts]_vars

\* a placeholder timestamp below the maximum was handled, and live packets
\* with timestamps after it
C36_Witness ==
    /\ use_live /\ pc = "flush" /\ InHandParsed
    /\ offset_sets = 1
    /\ placeholder_last_pts = Ts90000
    /\ max_placeholder_out = Ts90000
    /\ \E i \in 1..Len(out_log) : out_log[i][1] = "placeholder"
    /\ extract_pts(packet).pts # Ts90000

\* C39: when the first live timestamp is decoded and no placeholder
\* timestamp was decoded before it, placeholder_last_pts becomes that
\* timestamp and the offset is 0; every live packet is then written with
\* timestamp fields that decode to the values read.
C39_NoPlaceholderTimestamp ==
    /\ [][(HandleLive /\ extract_pts(packet).kind = "parsed"
           /\ first_live_pts = None /\ placeholder_last_pts = None)
             => /\ placeholder_last_pts' = extract_pts(packet).pts
                /\ first_live_pts' = extract_pts(packet).pts
                /\ pts_offset' = TsZero]_vars
    /\ []((max_placeholder_out = None /\ first_live_pts # None)
             => /\ pts_offset = TsZero
                /\ placeholder_last_pts = first_live_pts)
    /\ []((max_placeholder_out = None /\ pc = "flush" /\ use_live
           /\ InHandParsed)
             => LET parsed == extract_pts(packet)
                    out    == extract_pts(written)
                IN  /\ out.kind = "parsed"
                    /\ out.pts = parsed.pts
                    /\ out.dts = parsed.dts)

\* no placeholder packet carried a timestamp; a live packet with a nonzero
\* PTS set the offset and a later one was written
C39_Witness ==
    /\ pc = "flush" /\ use_live /\ InHandParsed
    /\ max_placeholder_out = None
    /\ first_live_pts # None /\ first_live_pts # TsZero
    /\ extract_pts(packet).pts # first_live_pts
    /\ extract_pts(written).pts = extract_pts(packet).pts


(***************************************************************************)
(* Termination of the children of the switch.                              *)
(***************************************************************************)
SignalRuns == {<< >>, <<"SIGTERM">>, <<"SIGTERM", "SIGKILL">>}

C37_RelayUntilEndOfStream ==
    /\ (live_started ~> sw_pc = "exit")
    /\ []((sw_pc = "exit" /\ live_started /\ sw_error = "none") =>
             (/\ live_pipe = << >>
              /\ LiveInSink = live_made
              /\ \E k \in 0..ph_made :
                    sink = PlaceholderOutput(k) \o LiveOutput(live_made)))

\* both live chunks relayed, main has returned
C37_Witness ==
    /\ sw_pc = "exit"
    /\ live_started
    /\ sw_error = "none"
    /\ sw_exit = "ok"
    /\ live_made >= 2
    /\ LiveInSink = live_made

(***************************************************************************)
(* Live output that is followed by the exit of the live process.           *)
(***************************************************************************)
\* C38 as stated: when the live process has written a chunk that is still
\* waiting in its pipe, main does not raise the error of line 82, whether
\* or not the live process has exited since.
C38_OutputThenExitHandsOver ==
    [][(~live_started /\ live_pipe # << >>) => sw_error' # "RuntimeError"]_vars


(***************************************************************************)
(* The metrics of a stopped operation, checked under MgrTimedSpec.         *)
(***************************************************************************)
\* C31 as stated: once an operation is stopped its metrics are frozen: a
\* get_metrics call on a stopped operation gives back the metrics as they
\* were, and leaves them as they were.
C31_FrozenAtStop ==
    [][\A op \in OpIds :
          (/\ GetMetrics(op)
           /\ Known(op) /\ StateOf(op) = "stopped"
           /\ op \in DOMAIN metrics)
            => /\ returned'.value = metrics[op]
               /\ metrics'[op] = metrics[op]]_vars


(***************************************************************************)
(* What a stop leaves behind, checked under MgrSpec.                       *)
(***************************************************************************)
\* C34 as stated: when a start_pipeline call for an operation is followed
\* at once by a stop_pipeline call for it, nothing of the operation is left
\* when the stop returns: no process group is owned and no simulate task of
\* the operation is registered or alive.
C34_StartStopLeavesNothing ==
    [][\A op \in OpIds :
          (/\ returned.call = "start_pipeline" /\ returned.op_id = op
           /\ StopPipeline(op))
            => /\ LiveTasks(op)' = {}
               /\ op \notin DOMAIN metric_tasks']_vars


\* what does hold: a stop ends the one task that is registered for the
\* operation, so that an operation with no other task is left with none
C34_StopEndsRegisteredTask ==
    [][\A op \in OpIds :
          (StopPipeline(op) /\ Known(op))
            => /\ op \notin DOMAIN metric_tasks'
               /\ LiveTasks(op)' =
                     {t \in LiveTasks(op) : op \in DOMAIN metric_tasks
                                            => t.id # metric_tasks[op]}]_vars


(***************************************************************************)
(* The restart policy of the supervisor, checked under SupSpec.            *)
(***************************************************************************)
\* the monitor is about to handle an unexpected exit of a running operation
UnexpectedExitSeen ==
    /\ sup_monitor = "waiting"
    /\ sup_proc = "failed"
    /\ sup_state = "running"
    /\ ~sup_stop_requested

\* C32: restart_count never decreases; it grows by exactly 1 when the
\* monitor handles an unexpected exit of a running operation and the
\* strategy permits a retry, and at no other step; when the cap is reached
\* the operation goes to error, which it never leaves; restart_count never
\* exceeds the cap.
C32_RestartCount ==
    /\ [](sup_restart_count <= sup_cap)
    /\ [][sup_restart_count' >= sup_restart_count]_vars
    /\ [][(MonitorObserves /\ UnexpectedExitSeen /\ sup_restart_count < sup_cap)
            => (/\ sup_restart_count' = sup_restart_count + 1
                /\ sup_state' = "restarting")]_vars
    /\ [][(MonitorObserves /\ UnexpectedExitSeen /\ sup_restart_count = sup_cap)
            => (/\ sup_restart_count' = sup_restart_count
                /\ sup_state' = "error")]_vars
    /\ [][sup_restart_count' # sup_restart_count
            => (/\ UnexpectedExitSeen
                /\ sup_restart_count' = sup_restart_count + 1)]_vars
    /\ [][sup_state = "error" => sup_state' = "error"]_vars
    /\ [](UnexpectedExitSeen => ENABLED MonitorObserves)

\* the cap of two retries was used up and the third exit ended in error
C32_Witness ==
    /\ sup_cap = MaxRetries
    /\ sup_restart_count = sup_cap
    /\ sup_exits = sup_cap + 1
    /\ sup_state = "error"
    /\ sup_spawns = sup_cap + 1

(***************************************************************************)
(* The stop request and the pending restart, checked under FairSupSpec.    *)
(***************************************************************************)
\* C33: once stop is requested the chain is never spawned again, the
\* request stays, the operation is stopping or stopped and never running
\* or restarting again, and it ends in stopped.
C33_StopWinsRestart ==
    /\ [][sup_stop_requested => sup_stop_requested']_vars
    /\ [][sup_stop_requested => sup_spawns' = sup_spawns]_vars
    /\ [](sup_stop_requested => sup_state \in {"stopping", "stopped"})
    /\ [](sup_state = "stopped" => sup_proc # "alive")
    /\ (sup_stop_requested ~> [](sup_state = "stopped"))

\* stop was requested during the backoff of a restart: the respawn was
\* suppressed and the operation is stopped
C33_Witness ==
    /\ sup_stop_requested
    /\ sup_state = "stopped"
    /\ sup_monitor = "done"
    /\ sup_proc = "failed"
    /\ sup_restart_count = 1
    /\ sup_spawns = 1


(***************************************************************************)
(* The pipelines of the TCP wrapper, checked under WrapperSpec.            *)
(***************************************************************************)
\* the process groups of the wrapper that are running
RunningGroups == {i \in 1..Len(w_groups) : w_groups[i] = "running"}

\* C40 as stated: at most one pipeline process group runs at a time; a
\* pipeline is launched only for a client that has connected; no process
\* group is running when the wrapper waits for the next client, nor when it
\* has exited on SIGTERM or SIGINT.
C40_OnePipelineAtATime ==
    /\ Cardinality(RunningGroups) <= 1
    /\ Len(w_groups) <= w_accepted
    /\ w_pc \in {"accept", "exited"} => RunningGroups = {}

\* what does hold: a pipeline is launched only for an accepted client, one
\* per client; CURRENT_PIPELINE is set only between the launch and the
\* termination, to the last pipeline launched; and no group that exits
\* within the wait of _terminate_current_pipeline is left running
C40_OneLaunchPerClient ==
    /\ Len(w_groups) <= w_accepted
    /\ w_accepted <= Len(w_groups) + 1
    /\ CURRENT_PIPELINE # None =>
           (w_pc \in {"relay", "terminate"} /\ CURRENT_PIPELINE = <<Len(w_groups)>>)
    /\ w_pc \in {"accept", "launch"} => CURRENT_PIPELINE = None

=============================================================================
